---- MODULE Spec2Model ----
(***************************************************************************)
(* Change detection between two opportunity snapshots                      *)
(* (src/src/change_detector.py, configured by src/src/config.py).          *)
(*                                                                         *)
(* A snapshot (a pandas DataFrame) is a sequence of rows; a row is a       *)
(* record indexed by column name.  The Id column holds strings; every      *)
(* other cell holds a dynamically typed value, modelled as a tagged        *)
(* record: a string, a number, a timestamp (day and time of day) or the    *)
(* missing value NaN/NaT/None.                                             *)
(***************************************************************************)
EXTENDS Integers, Sequences, FiniteSets, TLC

VARIABLES
  current_df,   \* the current snapshot handed to compare
  previous_df,  \* the previous snapshot handed to compare
  locals,       \* the id sets compare computes (its local variables)
  result,       \* the ComparisonResult compare returns
  pc,           \* "loaded" before compare has run, "compared" after
  today,        \* the clock reading MetricsCalculator took, NA before
  self_df,      \* MetricsCalculator.df, its prepared private copy
  attention,    \* the frame get_opportunities_to_update returned last
  mpc,          \* "idle" before MetricsCalculator is constructed, "ready" after
  kpi_frame,    \* the KPI column of HTMLReportGenerator.df, as its counts
  kpi_table,    \* the severity class of every row of the KPI severity table
  run,          \* one run of a pipeline entry point: options, position, outputs
  threads,      \* the compare invocations running concurrently, one per thread
  jobs,         \* JobManager._jobs: the Job of every job id created
  jobs_lock,    \* JobManager._jobs_lock: "free" or the name of its holder
  task,         \* the background thread running run_analysis_task
  request,      \* the handler of GET /{job_id}/result and its response
  classify_call, \* one call of _classify_change: its arguments and return value
  calcs,        \* two MetricsCalculators fed the same rows in two row orders
  metrics_summary, \* the dict get_summary returned last
  kpi_color,    \* one call of get_kpi_color: its arguments and return value
  cls_instance, \* JobManager._instance: 0 for None, or its place on the heap
  cls_lock,     \* JobManager._lock: "free" or "held"
  heap,         \* the JobManager objects allocated, with the attributes set so far
  callers       \* the threads calling JobManager() and then create_job

compareVars == <<current_df, previous_df, locals, result, pc>>
metricsVars == <<today, self_df, attention, mpc>>
kpiVars == <<kpi_frame, kpi_table>>
runVars == <<run>>
threadVars == <<threads>>
jobVars == <<jobs, jobs_lock, task, request>>
classifyVars == <<classify_call>>
groupVars == <<calcs>>
overviewVars == <<metrics_summary>>
colorVars == <<kpi_color>>
singletonVars == <<cls_instance, cls_lock, heap, callers>>

vars == <<compareVars, metricsVars, kpiVars, runVars, threadVars, jobVars, classifyVars, groupVars, overviewVars, colorVars, singletonVars>>

-----------------------------------------------------------------------------
(* Cell values *)

NA == [t |-> "na"]
Str(s) == [t |-> "str", s |-> s]
Num(n) == [t |-> "num", n |-> n]
Timestamp(d, h) == [t |-> "timestamp", day |-> d, time |-> h]
DateOnly(d) == [t |-> "date", day |-> d]

\* pd.isna
isna(v) == v.t = "na"

\* Python ==  on two non-missing scalars: values of different types are unequal
PyEq(a, b) == a.t = b.t /\ a = b

-----------------------------------------------------------------------------
(* Configuration tables, src/src/config.py *)

COL_ID == "Id"
COL_STAGE == "Stage"
COL_RESPONSIBLE == "Responsible"
COL_USD == "USD"
COL_CLOSE_DATE == "CloseDate"
COL_KPI == "KPI"
COL_MARKET == "Market"
COL_CREATED_DATE == "CreatedDate"

STAGNANT_DAYS_THRESHOLD == 30
WARNING_DAYS_BEFORE_CLOSE == 7

TRACKED_COLUMNS == <<"Stage", "Responsible", "USD", "CloseDate", "KPI">>

STAGE_ORDER ==
  << "Identify the opportunity",
     "Customer Analysis",
     "NDD/RFI",
     "NTP/RFI",
     "Application approved",
     "Financial Analysis",
     "Work Needs Analysis",
     "Tenant Lease",
     "Ground Lease Agreement",
     "TLA Signature",
     "Client Approval",
     "Work Execution",
     "Construction",
     "Service Delivery Analysis",
     "Ready to Bill",
     "Reported to Finance",
     "Proceed with Billing Changes",
     "Equipment Removal",
     "Customer Notification",
     "Cancelado" >>

-----------------------------------------------------------------------------
(* ChangeDetector helpers *)

\* ChangeDetector._values_equal: timestamps are compared by calendar day
ToDate(v) == IF v.t = "timestamp" THEN DateOnly(v.day) ELSE v

\* a variant that compares timestamps to the instant
values_equal_exact(val1, val2) ==
  IF isna(val1) /\ isna(val2) THEN TRUE
  ELSE IF isna(val1) \/ isna(val2) THEN FALSE
  ELSE PyEq(val1, val2)

values_equal(val1, val2) ==
  IF isna(val1) /\ isna(val2) THEN TRUE
  ELSE IF isna(val1) \/ isna(val2) THEN FALSE
  ELSE PyEq(ToDate(val1), ToDate(val2))

\* ChangeDetector._format_value: the display string of a value
format_value(value) ==
  IF isna(value) THEN Str("N/A")
  ELSE IF value.t = "timestamp" THEN Str(ToString(value.day))
  ELSE IF value.t = "num" THEN Str(ToString(value.n))
  ELSE IF value.t = "date" THEN Str(ToString(value.day))
  ELSE Str(value.s)

\* `stage in STAGE_ORDER`: NaN and non-strings are not members
InStageOrder(stage) ==
  stage.t = "str" /\ \E i \in 1..Len(STAGE_ORDER) : STAGE_ORDER[i] = stage.s

\* a variant whose membership test never succeeds
StageIndexNeverFound(stage) == -1

\* STAGE_ORDER.index(stage) if stage in STAGE_ORDER else -1   (0-based, first match)
StageIndex(stage) ==
  IF InStageOrder(stage)
  THEN (CHOOSE i \in 1..Len(STAGE_ORDER) :
          /\ STAGE_ORDER[i] = stage.s
          /\ \A j \in 1..(i - 1) : STAGE_ORDER[j] # stage.s) - 1
  ELSE -1

\* a variant that compares the two ranks the wrong way round
classify_stage_change_swapped(new_stage, old_stage) ==
  LET new_idx == StageIndex(new_stage)
      old_idx == StageIndex(old_stage)
  IN IF old_idx > new_idx THEN "stage_advance"
     ELSE IF old_idx < new_idx THEN "stage_regress"
     ELSE "stage_change"

\* ChangeDetector._classify_stage_change
classify_stage_change(new_stage, old_stage) ==
  LET new_idx == StageIndex(new_stage)
      old_idx == StageIndex(old_stage)
  IN IF new_idx > old_idx THEN "stage_advance"
     ELSE IF new_idx < old_idx THEN "stage_regress"
     ELSE "stage_change"

\* pd.to_numeric(v, errors='coerce') on a scalar: a number stays, the rest is NaN
to_numeric(v) == IF v.t = "num" THEN v ELSE NA

\* Python float comparison: any comparison with NaN is False
NumGreater(a, b) == a.t = "num" /\ b.t = "num" /\ a.n > b.n

\* a variant that reports value_increase unless the amount went down
classify_change_increase_unless_less(column, new_val, old_val) ==
  IF column = COL_STAGE THEN classify_stage_change(new_val, old_val)
  ELSE IF column = COL_USD
       THEN IF NumGreater(to_numeric(old_val), to_numeric(new_val))
            THEN "value_decrease"
            ELSE "value_increase"
  ELSE IF column = COL_RESPONSIBLE THEN "reassignment"
  ELSE IF column = COL_CLOSE_DATE THEN "reschedule"
  ELSE "modified"

\* ChangeDetector._classify_change
classify_change(column, new_val, old_val) ==
  IF column = COL_STAGE THEN classify_stage_change(new_val, old_val)
  ELSE IF column = COL_USD
       THEN IF NumGreater(to_numeric(new_val), to_numeric(old_val))
            THEN "value_increase"
            ELSE "value_decrease"
  ELSE IF column = COL_RESPONSIBLE THEN "reassignment"
  ELSE IF column = COL_CLOSE_DATE THEN "reschedule"
  ELSE "modified"

\* the dataclass ChangeRecord
ChangeRecord(opportunity_id, fld, old_value, new_value, change_type, responsible, market) ==
  [opportunity_id |-> opportunity_id, field |-> fld, old_value |-> old_value,
   new_value |-> new_value, change_type |-> change_type,
   responsible |-> responsible, market |-> market]

\* Series.get(column, default)
RowGet(row, column, default) == IF column \in DOMAIN row THEN row[column] ELSE default

\* a variant without the NaN handling: the cells are compared with ==, under
\* which NaN differs from NaN
ColumnChangedNoNaN(column, current, previous) ==
  /\ column \in DOMAIN current
  /\ column \in DOMAIN previous
  /\ \/ isna(current[column])
     \/ isna(previous[column])
     \/ ~PyEq(ToDate(current[column]), ToDate(previous[column]))

\* the test of one tracked column in the loop of _detect_row_changes
ColumnChanged(column, current, previous) ==
  /\ column \in DOMAIN current
  /\ column \in DOMAIN previous
  /\ ~(isna(current[column]) /\ isna(previous[column]))
  /\ ~values_equal(current[column], previous[column])

\* ChangeDetector._detect_row_changes
detect_row_changes(opp_id, current, previous) ==
  LET responsible == RowGet(current, COL_RESPONSIBLE, Str("Sin Asignar"))
      market == RowGet(current, COL_MARKET, Str("Sin Pais"))
      Differs(column) == ColumnChanged(column, current, previous)
      cols == SelectSeq(TRACKED_COLUMNS, Differs)
  IN [i \in 1..Len(cols) |->
        ChangeRecord(opp_id, cols[i],
                     format_value(previous[cols[i]]),
                     format_value(current[cols[i]]),
                     classify_change(cols[i], current[cols[i]], previous[cols[i]]),
                     responsible, market)]

-----------------------------------------------------------------------------
(* DataFrame operations used by compare *)

\* set(df[id_column].unique())
unique_ids(df) == {df[i][COL_ID] : i \in 1..Len(df)}

\* a variant that keeps only the first row of each id
isin_rows_first(df, ids) ==
  LET idx == {i \in 1..Len(df) :
                /\ df[i][COL_ID] \in ids
                /\ \A j \in 1..(i - 1) : df[j][COL_ID] # df[i][COL_ID]}
      Nth(k) == CHOOSE i \in idx : Cardinality({j \in idx : j < i}) = k - 1
  IN [k \in 1..Cardinality(idx) |-> df[Nth(k)]]

\* df[df[id_column].isin(ids)]: every row whose id is in ids, in row order
isin_rows(df, ids) ==
  LET Keep(row) == row[COL_ID] \in ids
  IN SelectSeq(df, Keep)

\* df[df[id_column] == opp_id].iloc[0]: the first row carrying the id
first_row(df, opp_id) ==
  LET Keep(row) == row[COL_ID] = opp_id
  IN SelectSeq(df, Keep)[1]

\* df[usd_col].sum(): pandas skips missing values; the empty sum is 0
RECURSIVE usd_sum(_)
usd_sum(df) ==
  IF df = <<>> THEN 0
  ELSE (IF isna(Head(df)[COL_USD]) THEN 0 ELSE Head(df)[COL_USD].n) + usd_sum(Tail(df))

\* a variant that counts each opportunity once per key
count_by_ids(changes, key) ==
  LET keys == {changes[i][key] : i \in 1..Len(changes)}
  IN [k \in keys |->
        Cardinality({changes[i].opportunity_id :
                       i \in {j \in 1..Len(changes) : changes[j][key] = k}})]

\* the dictionaries changes_by_type / changes_by_responsible / changes_by_market:
\* one count per key, counted per ChangeRecord
count_by(changes, key) ==
  LET keys == {changes[i][key] : i \in 1..Len(changes)}
  IN [k \in keys |-> Cardinality({i \in 1..Len(changes) : changes[i][key] = k})]

\* len(set(c.opportunity_id for c in changes))
unique_changed(changes) ==
  Cardinality({changes[i].opportunity_id : i \in 1..Len(changes)})

-----------------------------------------------------------------------------
(* ChangeDetector._generate_summary *)

\* a variant that takes the USD delta from the new and removed rows alone
generate_summary_delta_of_new(cur, prev, new_opps, removed_opps, changes, unchanged) ==
  [total_current |-> Len(cur),
   total_previous |-> Len(prev),
   new_count |-> Len(new_opps),
   removed_count |-> Len(removed_opps),
   changed_count |-> unique_changed(changes),
   unchanged_count |-> Len(unchanged),
   total_changes |-> Len(changes),
   new_usd |-> IF Len(new_opps) > 0 THEN usd_sum(new_opps) ELSE 0,
   removed_usd |-> IF Len(removed_opps) > 0 THEN usd_sum(removed_opps) ELSE 0,
   current_total_usd |-> usd_sum(cur),
   previous_total_usd |-> usd_sum(prev),
   usd_change |-> usd_sum(new_opps) - usd_sum(removed_opps),
   changes_by_type |-> count_by(changes, "change_type"),
   changes_by_responsible |-> count_by(changes, "responsible"),
   changes_by_market |-> count_by(changes, "market")]

generate_summary(cur, prev, new_opps, removed_opps, changes, unchanged) ==
  [total_current |-> Len(cur),
   total_previous |-> Len(prev),
   new_count |-> Len(new_opps),
   removed_count |-> Len(removed_opps),
   changed_count |-> unique_changed(changes),
   unchanged_count |-> Len(unchanged),
   total_changes |-> Len(changes),
   new_usd |-> IF Len(new_opps) > 0 THEN usd_sum(new_opps) ELSE 0,
   removed_usd |-> IF Len(removed_opps) > 0 THEN usd_sum(removed_opps) ELSE 0,
   current_total_usd |-> usd_sum(cur),
   previous_total_usd |-> usd_sum(prev),
   usd_change |-> usd_sum(cur) - usd_sum(prev),
   changes_by_type |-> count_by(changes, "change_type"),
   changes_by_responsible |-> count_by(changes, "responsible"),
   changes_by_market |-> count_by(changes, "market")]

-----------------------------------------------------------------------------
(* ChangeDetector.compare *)

\* a variant that forgets to subtract the previous ids
new_ids_all_current(current_ids, previous_ids) == current_ids

new_ids_of(current_ids, previous_ids) == current_ids \ previous_ids
\* a variant that forgets to subtract the current ids
removed_ids_all_previous(current_ids, previous_ids) == previous_ids

removed_ids_of(current_ids, previous_ids) == previous_ids \ current_ids
common_ids_of(current_ids, previous_ids) == current_ids \cap previous_ids

\* the id sets of lines 110-116
compare_ids(cur, prev) ==
  LET current_ids == unique_ids(cur)
      previous_ids == unique_ids(prev)
  IN [current_ids |-> current_ids,
      previous_ids |-> previous_ids,
      new_ids |-> new_ids_of(current_ids, previous_ids),
      removed_ids |-> removed_ids_of(current_ids, previous_ids),
      common_ids |-> common_ids_of(current_ids, previous_ids)]

\* a variant that records every visited id as unchanged
loop_step_always_unchanged(acc, opp_id, cur, prev) ==
  LET opp_changes == detect_row_changes(opp_id, first_row(cur, opp_id), first_row(prev, opp_id))
  IN [changes |-> acc.changes \o opp_changes,
      unchanged_ids |-> Append(acc.unchanged_ids, opp_id)]

\* one pass of the loop over common_ids: the changes of the id are appended,
\* or the id is recorded as unchanged
loop_step(acc, opp_id, cur, prev) ==
  LET current_row == first_row(cur, opp_id)
      previous_row == first_row(prev, opp_id)
      opp_changes == detect_row_changes(opp_id, current_row, previous_row)
  IN IF opp_changes # <<>>
     THEN [acc EXCEPT !.changes = @ \o opp_changes]
     ELSE [acc EXCEPT !.unchanged_ids = Append(@, opp_id)]

\* the loop `for opp_id in common_ids`, visiting the ids in the order `order`
RECURSIVE compare_loop(_, _, _, _)
compare_loop(order, cur, prev, acc) ==
  IF order = <<>> THEN acc
  ELSE compare_loop(Tail(order), cur, prev, loop_step(acc, Head(order), cur, prev))

\* the iteration orders of a Python set: any enumeration of its elements
Orders(S) ==
  {f \in [1..Cardinality(S) -> S] : \A i, j \in 1..Cardinality(S) : f[i] = f[j] => i = j}

unchanged_ids_set(loop) == {loop.unchanged_ids[i] : i \in 1..Len(loop.unchanged_ids)}

compare(cur, prev, order) ==
  LET ids == compare_ids(cur, prev)
      new_opportunities == isin_rows(cur, ids.new_ids)
      removed_opportunities == isin_rows(prev, ids.removed_ids)
      loop == compare_loop(order, cur, prev, [changes |-> <<>>, unchanged_ids |-> <<>>])
      unchanged == isin_rows(cur, unchanged_ids_set(loop))
  IN [new_opportunities |-> new_opportunities,
      removed_opportunities |-> removed_opportunities,
      changes |-> loop.changes,
      unchanged |-> unchanged,
      summary |-> generate_summary(cur, prev, new_opportunities, removed_opportunities,
                                   loop.changes, unchanged)]

-----------------------------------------------------------------------------
(* Snapshots *)

\* the largest number of rows the two snapshots of Spec hold together
MaxRows == 4

Row(id, stage, responsible, usd, close_date, kpi, market) ==
  [Id |-> id, Stage |-> stage, Responsible |-> responsible, USD |-> usd,
   CloseDate |-> close_date, KPI |-> kpi, Market |-> market]

\* the rows of one opportunity at the given stages, amounts and close dates
RowsOf(id, stages, amounts, close_dates) ==
  {Row(id, stage, Str("Alice"), Num(usd), close_date, NA, Str("Colombia")) :
     stage \in stages, usd \in amounts, close_date \in close_dates}

\* the rows of the snapshots of Spec: three opportunities; A has two stages
\* and two amounts, B has a stage or none, C closes on day 1 (at two times
\* of the day) or on day 2
Rows ==
  RowsOf("A", {Str("Construction"), Str("Work Execution")}, {50, 100}, {NA})
    \cup RowsOf("B", {NA, Str("Construction")}, {10}, {NA})
    \cup RowsOf("C", {Str("Construction")}, {50},
                {Timestamp(1, 0), Timestamp(1, 9), Timestamp(2, 0)})

\* all DataFrames of exactly n rows drawn from rows
FramesOfLen(rows, n) == [1..n -> rows]

NoLocals == [current_ids |-> {}, previous_ids |-> {}, new_ids |-> {},
             removed_ids |-> {}, common_ids |-> {}]

NoResult ==
  [new_opportunities |-> <<>>, removed_opportunities |-> <<>>, changes |-> <<>>,
   unchanged |-> <<>>, summary |-> <<>>]

\* no snapshot has been loaded
CompareIdle ==
  /\ current_df = <<>>
  /\ previous_df = <<>>
  /\ locals = NoLocals
  /\ result = NoResult
  /\ pc = "idle"

\* no MetricsCalculator has been constructed
MetricsIdle ==
  /\ today = NA
  /\ self_df = <<>>
  /\ attention = <<>>
  /\ mpc = "idle"

\* no KPI severity table has been asked for
KpiIdle ==
  /\ kpi_frame = <<>>
  /\ kpi_table = <<>>

\* no pipeline entry point has been started
RunIdle == run = <<>>

\* no thread runs a compare
ThreadsIdle == threads = <<>>

\* the API serves no job
JobsIdle ==
  /\ jobs = <<>>
  /\ jobs_lock = "free"
  /\ task = <<>>
  /\ request = <<>>

\* _classify_change is not being called
ClassifyIdle == classify_call = <<>>

GroupIdle == calcs = <<>>

OverviewIdle == metrics_summary = <<>>

ColorIdle == kpi_color = <<>>

SingletonIdle == cls_instance = <<>> /\ cls_lock = <<>> /\ heap = <<>> /\ callers = <<>>

\* every part of the program outside the parts named in S is at rest
IdleExcept(S) ==
  /\ "compare" \in S \/ CompareIdle
  /\ "metrics" \in S \/ MetricsIdle
  /\ "kpi" \in S \/ KpiIdle
  /\ "run" \in S \/ RunIdle
  /\ "threads" \in S \/ ThreadsIdle
  /\ "jobs" \in S \/ JobsIdle
  /\ "classify" \in S \/ ClassifyIdle
  /\ "group" \in S \/ GroupIdle
  /\ "overview" \in S \/ OverviewIdle
  /\ "color" \in S \/ ColorIdle
  /\ "singleton" \in S \/ SingletonIdle

\* a step of the parts named in S leaves the variables of every other part alone
Others(S) ==
  /\ "compare" \in S \/ UNCHANGED compareVars
  /\ "metrics" \in S \/ UNCHANGED metricsVars
  /\ "kpi" \in S \/ UNCHANGED kpiVars
  /\ "run" \in S \/ UNCHANGED runVars
  /\ "threads" \in S \/ UNCHANGED threadVars
  /\ "jobs" \in S \/ UNCHANGED jobVars
  /\ "classify" \in S \/ UNCHANGED classifyVars
  /\ "group" \in S \/ UNCHANGED groupVars
  /\ "overview" \in S \/ UNCHANGED overviewVars
  /\ "color" \in S \/ UNCHANGED colorVars
  /\ "singleton" \in S \/ UNCHANGED singletonVars

Init ==
  /\ \E n \in 0..MaxRows : \E m \in 0..(MaxRows - n) :
       /\ current_df \in FramesOfLen(Rows, n)
       /\ previous_df \in FramesOfLen(Rows, m)
  /\ locals = NoLocals
  /\ result = NoResult
  /\ pc = "loaded"
  /\ IdleExcept({"compare"})

\* one call ChangeDetector.compare(current_df, previous_df)
Compare ==
  /\ pc = "loaded"
  /\ locals' = compare_ids(current_df, previous_df)
  /\ \E order \in Orders(common_ids_of(unique_ids(current_df), unique_ids(previous_df))) :
       result' = compare(current_df, previous_df, order)
  /\ pc' = "compared"
  /\ UNCHANGED <<current_df, previous_df>>
  /\ Others({"compare"})

Next == Compare

Spec == Init /\ [][Next]_vars

-----------------------------------------------------------------------------
(* Stage changes: one opportunity whose stage takes every value *)

\* every stage of the ordered sequence, a stage outside it, and no stage
StageValues ==
  {Str(STAGE_ORDER[i]) : i \in 1..Len(STAGE_ORDER)} \cup {Str("Unknown"), NA}

StageRows == RowsOf("A", StageValues, {50}, {NA})

InitStage ==
  /\ current_df \in FramesOfLen(StageRows, 1)
  /\ previous_df \in FramesOfLen(StageRows, 1)
  /\ locals = NoLocals
  /\ result = NoResult
  /\ pc = "loaded"
  /\ IdleExcept({"compare"})

SpecStage == InitStage /\ [][Next]_vars

-----------------------------------------------------------------------------
(* Properties of compare *)

Compared == pc = "compared"

\* the ids that have at least one ChangeRecord in result.changes
ChangedIds == {result.changes[i].opportunity_id : i \in 1..Len(result.changes)}

\* the ids that appear in result.unchanged
UnchangedIds == {result.unchanged[i][COL_ID] : i \in 1..Len(result.unchanged)}

\* C1: after compare, new_ids and removed_ids are disjoint, new_ids is
\* disjoint from previous_ids, removed_ids is disjoint from current_ids, and
\* new_ids, removed_ids and common_ids together are exactly the ids of the
\* two snapshots.
C1_IdSetsPartition ==
  Compared =>
    /\ locals.current_ids = {current_df[i][COL_ID] : i \in DOMAIN current_df}
    /\ locals.previous_ids = {previous_df[i][COL_ID] : i \in DOMAIN previous_df}
    /\ locals.new_ids \cap locals.removed_ids = {}
    /\ locals.new_ids \cap locals.previous_ids = {}
    /\ locals.removed_ids \cap locals.current_ids = {}
    /\ locals.new_ids \cup locals.removed_ids \cup locals.common_ids
         = locals.current_ids \cup locals.previous_ids

\* a comparison with a new, a removed and a common opportunity
C1_Witness ==
  /\ Compared
  /\ locals.new_ids # {}
  /\ locals.removed_ids # {}
  /\ locals.common_ids # {}

\* C2: after compare, every id present in both snapshots is either changed
\* (it has a ChangeRecord) or unchanged (it is in result.unchanged), never
\* both and never neither.
C2_ChangedXorUnchanged ==
  Compared =>
    \A id \in locals.common_ids : (id \in ChangedIds) <=> (id \notin UnchangedIds)

\* a comparison with one changed and one unchanged common opportunity
C2_Witness ==
  /\ Compared
  /\ \E id \in locals.common_ids : id \in ChangedIds
  /\ \E id \in locals.common_ids : id \in UnchangedIds

\* the number of ChangeRecords of an opportunity with the given change type
TypeCount(id, change_type) ==
  Cardinality({i \in 1..Len(result.changes) :
                 /\ result.changes[i].opportunity_id = id
                 /\ result.changes[i].change_type = change_type})

\* the ChangeRecords of an opportunity
RecordsOf(id) == {i \in 1..Len(result.changes) : result.changes[i].opportunity_id = id}

\* the scenario: current = [A: usd 100, Work Execution, Alice],
\* previous = [A: usd 50, Construction, Alice; B: usd 10], compared
Scenario ==
  /\ Compared
  /\ current_df = <<Row("A", Str("Work Execution"), Str("Alice"), Num(100), NA, NA,
                        Str("Colombia"))>>
  /\ previous_df = <<Row("A", Str("Construction"), Str("Alice"), Num(50), NA, NA,
                         Str("Colombia")),
                     Row("B", NA, Str("Alice"), Num(10), NA, NA, Str("Colombia"))>>

\* the counts of the scenario, with the stage change of A classified as given
ScenarioOutcome(stage_type) ==
  /\ result.summary.new_count = 0
  /\ result.summary.removed_count = 1
  /\ result.summary.changed_count = 1
  /\ Cardinality(RecordsOf("A")) = 2
  /\ Len(result.changes) = 2
  /\ TypeCount("A", "value_increase") = 1
  /\ TypeCount("A", stage_type) = 1

\* the ChangeRecords of a move of the stage from Construction to Work Execution
ConstructionToWorkExecution ==
  {i \in 1..Len(result.changes) :
     /\ result.changes[i].field = COL_STAGE
     /\ result.changes[i].old_value = Str("Construction")
     /\ result.changes[i].new_value = Str("Work Execution")}

\* C3 as stated: a stage change from Construction to Work Execution is a
\* stage_advance, and the scenario yields new_count 0, removed_count 1,
\* changed_count 1 and two ChangeRecords for A, one value_increase and one
\* stage_advance.
C3_Original ==
  Compared =>
    /\ \A i \in ConstructionToWorkExecution :
         result.changes[i].change_type = "stage_advance"
    /\ Scenario => ScenarioOutcome("stage_advance")

\* C3 amended: Work Execution precedes Construction in STAGE_ORDER, so a stage
\* change from Construction to Work Execution is a stage_regress, and the
\* scenario yields new_count 0, removed_count 1, changed_count 1 and two
\* ChangeRecords for A, one value_increase and one stage_regress.
C3_ScenarioRegress ==
  Compared =>
    /\ \A i \in ConstructionToWorkExecution :
         result.changes[i].change_type = "stage_regress"
    /\ Scenario => ScenarioOutcome("stage_regress")

\* the scenario has been compared
C3_Witness == Scenario /\ ConstructionToWorkExecution # {}

(* Properties of the stage classification, over SpecStage: both snapshots
   hold the one opportunity A *)

old_stage == previous_df[1][COL_STAGE]
new_stage == current_df[1][COL_STAGE]

\* the ChangeRecords of the Stage column
StageRecords == {i \in 1..Len(result.changes) : result.changes[i].field = COL_STAGE}

\* stage t comes after stage s in the ordered sequence
ComesAfter(s, t) ==
  \E i, j \in 1..Len(STAGE_ORDER) :
    i < j /\ s = Str(STAGE_ORDER[i]) /\ t = Str(STAGE_ORDER[j])

Known(stage) == \E i \in 1..Len(STAGE_ORDER) : stage = Str(STAGE_ORDER[i])

\* C4 as stated: when the stage changes and the old or the new stage is not
\* in the ordered sequence (or is null), the change is a stage_change.
C4_Original ==
  Compared /\ Len(current_df) = 1 /\ Len(previous_df) = 1 =>
    \A i \in StageRecords :
      (~Known(old_stage) \/ ~Known(new_stage)) =>
        result.changes[i].change_type = "stage_change"

\* C5: a stage change between two distinct stages of the ordered sequence
\* is a stage_advance when the new stage comes after the old one and a
\* stage_regress when it comes before.
C5_StageMonotone ==
  Compared /\ Len(current_df) = 1 /\ Len(previous_df) = 1 =>
    /\ Known(old_stage) /\ Known(new_stage) /\ old_stage # new_stage =>
         /\ Cardinality(StageRecords) = 1
         /\ ComesAfter(old_stage, new_stage) \/ ComesAfter(new_stage, old_stage)
    /\ \A i \in StageRecords :
         /\ ComesAfter(old_stage, new_stage) =>
              result.changes[i].change_type = "stage_advance"
         /\ ComesAfter(new_stage, old_stage) =>
              result.changes[i].change_type = "stage_regress"

\* a move from the last stage back to the first one, classified
C5_Witness ==
  /\ Compared
  /\ Len(current_df) = 1 /\ Len(previous_df) = 1
  /\ old_stage = Str("Cancelado")
  /\ new_stage = Str("Identify the opportunity")
  /\ \E i \in StageRecords : result.changes[i].change_type = "stage_regress"

(* Properties of the summary *)

\* C6: comparing a snapshot against itself yields new_count 0,
\* removed_count 0, changed_count 0, no ChangeRecord, and unchanged_count
\* equal to the number of rows of the snapshot.
C6_SelfCompare ==
  Compared /\ current_df = previous_df =>
    /\ result.summary.new_count = 0
    /\ result.summary.removed_count = 0
    /\ result.summary.changed_count = 0
    /\ result.changes = <<>>
    /\ result.summary.unchanged_count = Len(current_df)

\* a snapshot of two rows, one of them without a stage, compared with itself
C6_Witness ==
  /\ Compared
  /\ current_df = previous_df
  /\ Len(current_df) = 2
  /\ \E i \in 1..Len(current_df) : isna(current_df[i][COL_STAGE])

\* C7: swapping current and previous swaps new and removed: new_count of
\* compare(previous, current) is removed_count of compare(current, previous),
\* and removed_count of the first is new_count of the second.
C7_SwapSymmetry ==
  Compared =>
    \A order \in Orders(locals.common_ids) :
      LET swapped == compare(previous_df, current_df, order)
      IN /\ swapped.summary.new_count = result.summary.removed_count
         /\ swapped.summary.removed_count = result.summary.new_count

\* two new rows and no removed row beside a common opportunity
C7_Witness ==
  /\ Compared
  /\ result.summary.new_count = 2
  /\ result.summary.removed_count = 0
  /\ locals.common_ids # {}

\* the sum of USD over the rows 1..n of a snapshot
RECURSIVE TotalUsd(_, _)
TotalUsd(df, n) ==
  IF n = 0 THEN 0
  ELSE TotalUsd(df, n - 1) + (IF isna(df[n][COL_USD]) THEN 0 ELSE df[n][COL_USD].n)

\* C8: usd_change is the sum of usd over all current rows minus the sum over
\* all previous rows (0 when both are empty), and is current_total_usd minus
\* previous_total_usd of the same summary.
C8_UsdChange ==
  Compared =>
    /\ result.summary.usd_change
         = TotalUsd(current_df, Len(current_df)) - TotalUsd(previous_df, Len(previous_df))
    /\ result.summary.usd_change
         = result.summary.current_total_usd - result.summary.previous_total_usd
    /\ current_df = <<>> /\ previous_df = <<>> => result.summary.usd_change = 0

\* a comparison in which a common opportunity lost value and nothing is new
\* or removed
C8_Witness ==
  /\ Compared
  /\ result.summary.usd_change < 0
  /\ result.summary.new_count = 0
  /\ result.summary.removed_count = 0
  /\ result.summary.changes_by_type = [k \in {"value_decrease"} |-> 1]

\* C9: with an empty previous snapshot every current row is new, and
\* changed_count, unchanged_count, removed_count and total_changes are 0.
C9_EmptyPrevious ==
  Compared /\ previous_df = <<>> =>
    /\ result.new_opportunities = current_df
    /\ result.summary.new_count = Len(current_df)
    /\ result.summary.changed_count = 0
    /\ result.summary.unchanged_count = 0
    /\ result.summary.removed_count = 0
    /\ result.summary.total_changes = 0

\* a current snapshot of several rows compared with an empty previous one
C9_Witness ==
  /\ Compared
  /\ previous_df = <<>>
  /\ Len(current_df) >= 3
  /\ result.summary.new_count = Len(current_df)

\* the rows of a snapshot without the later rows of an id already seen
FirstOccurrences(df) ==
  LET First(i) == \A j \in 1..(i - 1) : df[j][COL_ID] # df[i][COL_ID]
      idx == {i \in 1..Len(df) : First(i)}
      \* the k-th smallest index of idx
      Nth(k) == CHOOSE i \in idx : Cardinality({j \in idx : j < i}) = k - 1
  IN [k \in 1..Cardinality(idx) |-> df[Nth(k)]]

\* the ChangeRecords of a list, as a set
RecordSet(changes) == {changes[i] : i \in 1..Len(changes)}

\* C10 as stated: with several rows of the same id in a snapshot only the
\* first one counts: the change records, the new, removed and unchanged
\* rows and their counts are those of the snapshots without the later
\* duplicate rows.
C10_Original ==
  Compared =>
    \A order \in Orders(locals.common_ids) :
      LET first == compare(FirstOccurrences(current_df), FirstOccurrences(previous_df), order)
      IN /\ RecordSet(result.changes) = RecordSet(first.changes)
         /\ result.new_opportunities = first.new_opportunities
         /\ result.removed_opportunities = first.removed_opportunities
         /\ result.unchanged = first.unchanged
         /\ result.summary.new_count = first.summary.new_count
         /\ result.summary.removed_count = first.summary.removed_count
         /\ result.summary.unchanged_count = first.summary.unchanged_count

-----------------------------------------------------------------------------
(* MetricsCalculator, src/src/metrics.py *)

\* a Timedelta is counted in hours; .dt.days is its whole number of days
HoursPerDay == 24

\* pd.to_numeric(errors='coerce').fillna(0) on one cell of the USD column
usd_coerced(v) == IF isna(to_numeric(v)) THEN Num(0) ELSE to_numeric(v)

\* pd.to_datetime(errors='coerce') on one cell: a text that is no date is NaT
to_datetime(v) == IF v.t = "timestamp" THEN v ELSE NA

\* (later - earlier).dt.days: the floor of the difference in days, NaN on NaT
days_between(later, earlier) ==
  IF isna(later) \/ isna(earlier)
    THEN NA
    ELSE Num(((later.day * HoursPerDay + later.time)
                - (earlier.day * HoursPerDay + earlier.time)) \div HoursPerDay)

\* series > n and series < n on one cell: a comparison with NaN is False
days_gt(v, n) == v.t = "num" /\ v.n > n
days_lt(v, n) == v.t = "num" /\ v.n < n
days_ge(v, n) == v.t = "num" /\ v.n >= n

\* the stagnant flag with the boundary included
is_stagnant_inclusive(days_since_creation) ==
  days_ge(days_since_creation, STAGNANT_DAYS_THRESHOLD)

is_stagnant(days_since_creation) ==
  days_gt(days_since_creation, STAGNANT_DAYS_THRESHOLD)

is_at_risk(days_to_close) == days_lt(days_to_close, WARNING_DAYS_BEFORE_CLOSE)

\* _prepare_data on one row
prepare_row(row, now) ==
  LET created == to_datetime(row[COL_CREATED_DATE])
      close == to_datetime(row[COL_CLOSE_DATE])
      days_since_creation == days_between(now, created)
      days_to_close == days_between(close, now)
  IN [c \in DOMAIN row \cup {"_days_since_creation", "_days_to_close",
                             "_is_stagnant", "_is_at_risk"} |->
        CASE c = COL_USD -> usd_coerced(row[COL_USD])
          [] c = COL_CLOSE_DATE -> close
          [] c = COL_CREATED_DATE -> created
          [] c = "_days_since_creation" -> days_since_creation
          [] c = "_days_to_close" -> days_to_close
          [] c = "_is_stagnant" -> is_stagnant(days_since_creation)
          [] c = "_is_at_risk" -> is_at_risk(days_to_close)
          [] OTHER -> row[c]]

prepare_data(df, now) == [i \in 1..Len(df) |-> prepare_row(df[i], now)]

\* a constructor that keeps the caller's frame instead of a copy of it
metrics_init_aliased(df, now) ==
  [df |-> prepare_data(df, now), self_df |-> prepare_data(df, now)]

\* MetricsCalculator.__init__: the caller's frame afterwards and self.df
metrics_init(df, now) == [df |-> df, self_df |-> prepare_data(df, now)]

\* a filter that forgets the stagnant rows
needs_attention_by_close_date(row) ==
  row["_is_at_risk"] \/ days_lt(row["_days_to_close"], 0)

\* the filter of get_opportunities_to_update
needs_attention(row) ==
  row["_is_stagnant"] \/ row["_is_at_risk"] \/ days_lt(row["_days_to_close"], 0)

\* a variant that writes PROX_VENCER on every row at risk, overdue or not
razon_alerta_at_risk_first(row) ==
  LET base == IF days_lt(row["_days_to_close"], 0) THEN "VENCIDA" ELSE ""
      due == IF row["_is_at_risk"] THEN "PROX_VENCER" ELSE base
  IN IF row["_is_stagnant"] THEN due \o " ESTANCADA" ELSE due

\* the Razon_Alerta cell of one selected row
razon_alerta(row) ==
  LET base == IF days_lt(row["_days_to_close"], 0) THEN "VENCIDA" ELSE ""
      due == IF row["_is_at_risk"] /\ days_ge(row["_days_to_close"], 0)
               THEN "PROX_VENCER" ELSE base
  IN IF row["_is_stagnant"] THEN due \o " ESTANCADA" ELSE due

with_razon_alerta(row) ==
  [c \in DOMAIN row \cup {"Razon_Alerta"} |->
     IF c = "Razon_Alerta" THEN razon_alerta(row) ELSE row[c]]

\* a variant that sorts both keys ascending
sorts_before_ascending(a, b) ==
  LET ca == a["_days_to_close"]
      cb == b["_days_to_close"]
      sa == a["_days_since_creation"]
      sb == b["_days_since_creation"]
  IN IF ca # cb
       THEN IF isna(ca) THEN FALSE ELSE IF isna(cb) THEN TRUE ELSE ca.n < cb.n
       ELSE IF sa = sb \/ isna(sa) THEN FALSE ELSE IF isna(sb) THEN TRUE ELSE sa.n < sb.n

\* sort_values(['_days_to_close', '_days_since_creation'], ascending=[True, False]):
\* a sorts strictly before b; NaN sorts last under either direction
sorts_before(a, b) ==
  LET ca == a["_days_to_close"]
      cb == b["_days_to_close"]
      sa == a["_days_since_creation"]
      sb == b["_days_since_creation"]
  IN IF ca # cb
       THEN IF isna(ca) THEN FALSE ELSE IF isna(cb) THEN TRUE ELSE ca.n < cb.n
       ELSE IF sa = sb \/ isna(sa) THEN FALSE ELSE IF isna(sb) THEN TRUE ELSE sa.n > sb.n

\* the stable sort puts a row after every row it does not sort before
sort_insert(sorted, row) ==
  LET later == {i \in 1..Len(sorted) : sorts_before(row, sorted[i])}
      pos == IF later = {} THEN Len(sorted) + 1
             ELSE CHOOSE i \in later : \A j \in later : i <= j
  IN SubSeq(sorted, 1, pos - 1) \o <<row>> \o SubSeq(sorted, pos, Len(sorted))

RECURSIVE sort_values(_)
sort_values(df) ==
  IF df = <<>> THEN <<>>
  ELSE sort_insert(sort_values(SubSeq(df, 1, Len(df) - 1)), df[Len(df)])

SelectedRows(df) == SelectSeq(df, needs_attention)

get_opportunities_to_update(df) ==
  LET selected == SelectedRows(df)
  IN sort_values([i \in 1..Len(selected) |-> with_razon_alerta(selected[i])])

\* the largest number of rows of the snapshot of SpecMetrics
MaxMetricRows == 2

\* one opportunity created and closing on the given dates
MetricRow(id, usd, created, close) ==
  [Id |-> id, Stage |-> Str("Construction"), Responsible |-> Str("Alice"),
   USD |-> usd, CloseDate |-> close, KPI |-> NA, Market |-> Str("Colombia"),
   CreatedDate |-> created]

\* the clock readings: day 100 at midnight and at noon
Nows == {Timestamp(100, 0), Timestamp(100, 12)}

\* created 31 days before day 100 (at midnight or at noon), 30 days before
\* it, or on no date; closing the day before, 3 or 20 days after, or never
MetricRows ==
  {MetricRow(id, Num(50), created, close) :
     id \in {"A", "B"},
     created \in {NA, Timestamp(69, 0), Timestamp(69, 12), Timestamp(70, 0)},
     close \in {NA, Timestamp(99, 0), Timestamp(103, 0), Timestamp(120, 0)}}

InitMetrics ==
  /\ \E n \in 0..MaxMetricRows : current_df \in FramesOfLen(MetricRows, n)
  /\ previous_df = <<>>
  /\ locals = NoLocals
  /\ result = NoResult
  /\ pc = "loaded"
  /\ IdleExcept({"compare"})

\* metrics = MetricsCalculator(current_df)
ConstructMetrics ==
  /\ mpc = "idle"
  /\ \E now \in Nows :
       /\ today' = now
       /\ current_df' = metrics_init(current_df, now).df
       /\ self_df' = metrics_init(current_df, now).self_df
  /\ mpc' = "ready"
  /\ UNCHANGED <<previous_df, locals, result, pc, attention>>
  /\ Others({"compare", "metrics"})

\* metrics.get_opportunities_to_update()
QueryAttention ==
  /\ mpc = "ready"
  /\ attention' = get_opportunities_to_update(self_df)
  /\ mpc' = "queried"
  /\ UNCHANGED <<compareVars, today, self_df>>
  /\ Others({"compare", "metrics"})

NextMetrics == ConstructMetrics \/ QueryAttention

SpecMetrics == InitMetrics /\ [][NextMetrics]_vars

-----------------------------------------------------------------------------
(* Properties of the stagnant flag *)

Prepared == mpc # "idle"

\* the whole days between the creation of row i and the clock reading,
\* recomputed from the caller's row
DaysSinceCreation(i) ==
  (today.day * HoursPerDay + today.time
     - (current_df[i][COL_CREATED_DATE].day * HoursPerDay
          + current_df[i][COL_CREATED_DATE].time)) \div HoursPerDay

\* C11: a row is flagged stagnant iff it has a created date and its whole
\* days since creation exceed STAGNANT_DAYS_THRESHOLD: 31 days is stagnant,
\* exactly 30 days is not, and a row with no created date is not
C11_StagnantStrict ==
  Prepared =>
    /\ Len(self_df) = Len(current_df)
    /\ \A i \in 1..Len(self_df) :
         /\ isna(current_df[i][COL_CREATED_DATE]) => ~self_df[i]["_is_stagnant"]
         /\ ~isna(current_df[i][COL_CREATED_DATE]) =>
              /\ self_df[i]["_days_since_creation"] = Num(DaysSinceCreation(i))
              /\ self_df[i]["_is_stagnant"]
                   <=> DaysSinceCreation(i) > STAGNANT_DAYS_THRESHOLD
              /\ DaysSinceCreation(i) = STAGNANT_DAYS_THRESHOLD + 1
                   => self_df[i]["_is_stagnant"]
              /\ DaysSinceCreation(i) = STAGNANT_DAYS_THRESHOLD
                   => ~self_df[i]["_is_stagnant"]

\* a prepared frame holding a row of 31 days (stagnant), a row of exactly
\* 30 days (not stagnant)
C11_Witness ==
  /\ Prepared
  /\ \E i, j \in 1..Len(self_df) :
       /\ self_df[i]["_days_since_creation"] = Num(STAGNANT_DAYS_THRESHOLD + 1)
       /\ self_df[i]["_is_stagnant"]
       /\ self_df[j]["_days_since_creation"] = Num(STAGNANT_DAYS_THRESHOLD)
       /\ ~self_df[j]["_is_stagnant"]

-----------------------------------------------------------------------------
(* The KPI severity table, src/src/html_report_generator.py *)

\* one entry of KPI_CATEGORIES; a threshold is held in tenths (0.5 is 5)
Category(green_x10, yellow_x10, is_percentage) ==
  [thresholds |-> [green |-> green_x10, yellow |-> yellow_x10],
   is_percentage |-> is_percentage]

KPI_CATEGORIES ==
  "DC001 NB" :> Category(100, 150, TRUE)
    @@ "DC001 CHURN" :> Category(1000, 5000, FALSE)
    @@ "DC002 NB" :> Category(150, 500, FALSE)
    @@ "DC002 CHURN" :> Category(150, 500, FALSE)
    @@ "DC003" :> Category(5, 10, TRUE)
    @@ "DC004" :> Category(500, 1000, FALSE)
    @@ "DC005" :> Category(15, 30, TRUE)
    @@ "DC007" :> Category(50, 100, FALSE)
    @@ "DC008" :> Category(150, 300, FALSE)
    @@ "DC010" :> Category(0, 150, FALSE)
    @@ "DC011" :> Category(0, 10, FALSE)

\* kpi_counts.get(kpi_code, 0) of a frame whose KPI column holds one code
kpi_count(frame, kpi_code) == IF kpi_code = frame.kpi_code THEN frame.count ELSE 0

\* the value compared with the thresholds, as a fraction: count / total_opps
\* * 100 for a percentage code of a frame that has rows, the count otherwise.
\* The float keeps the order of the fraction against every configured
\* threshold: the quotients 0.1, 0.15, 0.005, 0.01, 0.015 and 0.03 times 100
\* are the thresholds exactly.
kpi_value(count, total_opps, is_percentage) ==
  IF is_percentage /\ total_opps > 0
    THEN [num |-> count * 100, den |-> total_opps]
    ELSE [num |-> count, den |-> 1]

\* value <= threshold
value_le(value, threshold_x10) == value.num * 10 <= threshold_x10 * value.den

\* value < threshold
value_lt(value, threshold_x10) == value.num * 10 < threshold_x10 * value.den

\* the bands with their upper boundaries excluded
severity_class_exclusive(value, thresholds) ==
  IF value_lt(value, thresholds.green) THEN "severity-low"
  ELSE IF value_lt(value, thresholds.yellow) THEN "severity-medium"
  ELSE "severity-high"

severity_class(value, thresholds) ==
  IF value_le(value, thresholds.green) THEN "severity-low"
  ELSE IF value_le(value, thresholds.yellow) THEN "severity-medium"
  ELSE "severity-high"

\* the severity class of every row of _build_kpi_severity_table
build_kpi_severity_table(frame) ==
  [kpi_code \in DOMAIN KPI_CATEGORIES |->
     LET kpi_info == KPI_CATEGORIES[kpi_code]
         count == kpi_count(frame, kpi_code)
     IN severity_class(kpi_value(count, frame.total_opps, kpi_info.is_percentage),
                       kpi_info.thresholds)]

\* the largest number of rows of the frame of SpecKpi
MaxKpiRows == 60

\* a frame of total_opps rows, count of which carry kpi_code
InitKpi ==
  /\ \E kpi_code \in DOMAIN KPI_CATEGORIES :
       \E total_opps \in 0..MaxKpiRows : \E count \in 0..total_opps :
          kpi_frame = [kpi_code |-> kpi_code, count |-> count, total_opps |-> total_opps]
  /\ kpi_table = <<>>
  /\ IdleExcept({"kpi"})

\* self._build_kpi_severity_table()
BuildKpiSeverityTable ==
  /\ kpi_table = <<>>
  /\ kpi_table' = build_kpi_severity_table(kpi_frame)
  /\ UNCHANGED kpi_frame
  /\ Others({"kpi"})

NextKpi == BuildKpiSeverityTable

SpecKpi == InitKpi /\ [][NextKpi]_vars

-----------------------------------------------------------------------------
(* Properties of the KPI severity table *)

TableBuilt == kpi_table # <<>>

\* the band of the row of kpi_code, recomputed in whole numbers: the count
\* (or, for a percentage code of a frame with rows, 100 * count / total_opps)
\* against the two thresholds, upper boundaries included
BandOf(kpi_code) ==
  LET info == KPI_CATEGORIES[kpi_code]
      count == kpi_count(kpi_frame, kpi_code)
      pct == info.is_percentage /\ kpi_frame.total_opps > 0
      scaled == IF pct THEN count * 1000 ELSE count * 10
      unit == IF pct THEN kpi_frame.total_opps ELSE 1
  IN IF scaled <= info.thresholds.green * unit THEN "severity-low"
     ELSE IF scaled <= info.thresholds.yellow * unit THEN "severity-medium"
     ELSE "severity-high"

-----------------------------------------------------------------------------
(* The report stage of the three pipeline entry points:                    *)
(* run_analysis_task (src/src/api/routes/analysis.py), main of             *)
(* src/run_weekly.py and main of src/run_monthly.py                        *)

\* the output formats a run can be asked for
Formats == {"excel", "responsible_reports", "html", "emails", "historical"}

\* the options of a run of each entry point, as the formats they ask for:
\* the weekly run always writes the Excel report, the per-responsible
\* workbooks unless --no-emails, the HTML report and the per-responsible
\* emails unless --no-html; the API task writes the Excel report, and the HTML
\* report if generate_html; the monthly run writes both, and the historical
\* workbook when more than one snapshot exists
Requests(entry) ==
  CASE entry = "weekly" ->
         {{"excel"} \cup a \cup b : a \in {{}, {"responsible_reports"}},
                                    b \in {{}, {"html", "emails"}}}
    [] entry = "api" -> {{"excel"}, {"excel", "html"}}
    [] entry = "monthly" -> {{"excel", "html"}, {"excel", "html", "historical"}}

\* the report stage begins: the formats in failing raise when rendered
InitRun ==
  /\ \E entry \in {"api", "weekly", "monthly"} :
       \E requested \in Requests(entry) : \E failing \in SUBSET Formats :
          run = [entry |-> entry, requested |-> requested, failing |-> failing,
                 step |-> "excel", produced |-> {}, status |-> "running"]
  /\ IdleExcept({"run"})

\* a render that is asked for and succeeds leaves its output
Rendered(format) ==
  IF format \in run.requested /\ format \notin run.failing
    THEN run.produced \cup {format}
    ELSE run.produced

Raises(format) == format \in run.requested /\ format \in run.failing

\* the exception of a render outside every try block ends the run
Propagate == run' = [run EXCEPT !.step = "end", !.status = "aborted"]

\* the Excel report: inside try/except in the API task only
GenerateExcel ==
  /\ run # <<>>
  /\ run.step = "excel"
  /\ IF Raises("excel") /\ run.entry # "api"
       THEN Propagate
       ELSE run' = [run EXCEPT !.produced = Rendered("excel"),
                               !.step = IF run.entry = "weekly"
                                          THEN "responsible_reports" ELSE "html"]
  /\ Others({"run"})

\* the per-responsible workbooks of the weekly run: outside every try block
GenerateResponsibleReports ==
  /\ run # <<>>
  /\ run.step = "responsible_reports"
  /\ IF Raises("responsible_reports")
       THEN Propagate
       ELSE run' = [run EXCEPT !.produced = Rendered("responsible_reports"),
                               !.step = "html"]
  /\ Others({"run"})

\* the HTML report: inside try/except in every entry point
GenerateHtml ==
  /\ run # <<>>
  /\ run.step = "html"
  /\ run' = [run EXCEPT !.produced = Rendered("html"),
                        !.step = CASE run.entry = "weekly" -> "emails"
                                   [] run.entry = "api" -> "finish"
                                   [] run.entry = "monthly" -> "historical"]
  /\ Others({"run"})

\* the per-responsible emails of the weekly run: inside try/except
GenerateEmails ==
  /\ run # <<>>
  /\ run.step = "emails"
  /\ run' = [run EXCEPT !.produced = Rendered("emails"), !.step = "finish"]
  /\ Others({"run"})

\* the historical workbook of the monthly run: outside every try block
WriteHistorical ==
  /\ run # <<>>
  /\ run.step = "historical"
  /\ IF Raises("historical")
       THEN Propagate
       ELSE run' = [run EXCEPT !.produced = Rendered("historical"), !.step = "finish"]
  /\ Others({"run"})

\* return 0 of main, set_result of the API task
FinishRun ==
  /\ run # <<>>
  /\ run.step = "finish"
  /\ run' = [run EXCEPT !.step = "end", !.status = "completed"]
  /\ Others({"run"})

NextRun ==
  \/ GenerateExcel
  \/ GenerateResponsibleReports
  \/ GenerateHtml
  \/ GenerateEmails
  \/ WriteHistorical
  \/ FinishRun

SpecRun == InitRun /\ [][NextRun]_vars

-----------------------------------------------------------------------------
(* Properties of the report stage *)

RunEnded == run # <<>> /\ run.step = "end"

\* C13: in every entry point a run whose render of one format raises still
\* completes and still produces every other requested format
C13_Original ==
  RunEnded =>
    /\ run.status = "completed"
    /\ \A format \in run.requested \ run.failing : format \in run.produced

-----------------------------------------------------------------------------
(* Concurrent compare invocations: compare_datasets called from two        *)
(* threads, each on its own pair of snapshots.  Every invocation builds    *)
(* its own ChangeDetector; its id sets, its lists changes and              *)
(* unchanged_ids and its frames are locals of the call.                    *)

Threads == {1, 2}

\* the largest number of rows the four snapshots of SpecThreads hold together
MaxThreadRows == 4

\* the rows of the snapshots of SpecThreads: A at two amounts, and B
ThreadRows ==
  RowsOf("A", {Str("Construction")}, {50, 100}, {NA})
    \cup RowsOf("B", {Str("Construction")}, {10}, {NA})

NoLoop == [changes |-> <<>>, unchanged_ids |-> <<>>]

\* a thread about to call compare_datasets(cur, prev)
ThreadAt(cur, prev) ==
  [current_df |-> cur, previous_df |-> prev, pc |-> "start", ids |-> NoLocals,
   order |-> <<>>, visited |-> 0, loop |-> NoLoop, result |-> NoResult]

InitThreads ==
  /\ \E n1 \in 0..MaxThreadRows : \E m1 \in 0..(MaxThreadRows - n1) :
       \E n2 \in 0..(MaxThreadRows - n1 - m1) :
         \E m2 \in 0..(MaxThreadRows - n1 - m1 - n2) :
           \E c1 \in FramesOfLen(ThreadRows, n1), p1 \in FramesOfLen(ThreadRows, m1),
              c2 \in FramesOfLen(ThreadRows, n2), p2 \in FramesOfLen(ThreadRows, m2) :
             threads = [t \in Threads |->
                          IF t = 1 THEN ThreadAt(c1, p1) ELSE ThreadAt(c2, p2)]
  /\ IdleExcept({"threads"})

\* lists changes and unchanged_ids kept on the class: every invocation
\* appends to the lists of the first
loop_of_shared(t) == threads[1].loop

\* the lists changes and unchanged_ids of the invocation of thread t
loop_of(t) == threads[t].loop

\* lines 105-123: the id sets and the two empty lists; the for loop will
\* visit common_ids in some order
CompareBegin(t) ==
  /\ threads # <<>>
  /\ threads[t].pc = "start"
  /\ LET ids == compare_ids(threads[t].current_df, threads[t].previous_df)
     IN \E order \in Orders(ids.common_ids) :
          threads' = [threads EXCEPT ![t].ids = ids, ![t].order = order,
                                     ![t].loop = NoLoop, ![t].pc = "loop"]
  /\ Others({"threads"})

\* lines 125-135: one pass of the for loop
CompareVisit(t) ==
  /\ threads # <<>>
  /\ threads[t].pc = "loop"
  /\ threads[t].visited < Len(threads[t].order)
  /\ threads' = [threads EXCEPT
       ![t].loop = loop_step(loop_of(t), threads[t].order[threads[t].visited + 1],
                             threads[t].current_df, threads[t].previous_df),
       ![t].visited = @ + 1]
  /\ Others({"threads"})

\* lines 119-120 and 137-158: the frames, the summary and the return value
compare_return(cur, prev, ids, loop) ==
  LET new_opportunities == isin_rows(cur, ids.new_ids)
      removed_opportunities == isin_rows(prev, ids.removed_ids)
      unchanged == isin_rows(cur, unchanged_ids_set(loop))
  IN [new_opportunities |-> new_opportunities,
      removed_opportunities |-> removed_opportunities,
      changes |-> loop.changes,
      unchanged |-> unchanged,
      summary |-> generate_summary(cur, prev, new_opportunities, removed_opportunities,
                                   loop.changes, unchanged)]

CompareReturn(t) ==
  /\ threads # <<>>
  /\ threads[t].pc = "loop"
  /\ threads[t].visited = Len(threads[t].order)
  /\ threads' = [threads EXCEPT
       ![t].result = compare_return(threads[t].current_df, threads[t].previous_df,
                                    threads[t].ids, loop_of(t)),
       ![t].pc = "done"]
  /\ Others({"threads"})

NextThreads ==
  \E t \in Threads : CompareBegin(t) \/ CompareVisit(t) \/ CompareReturn(t)

SpecThreads == InitThreads /\ [][NextThreads]_vars

-----------------------------------------------------------------------------
(* Properties of concurrent compare invocations *)

\* C14: under every interleaving of two compare invocations, each returns
\* the ComparisonResult that compare returns on its pair of snapshots when it
\* runs alone (visiting the common ids in the same order)
C14_NoInterference ==
  threads # <<>> =>
    \A t \in Threads :
      threads[t].pc = "done" =>
        threads[t].result = compare(threads[t].current_df, threads[t].previous_df,
                                    threads[t].order)

\* thread 1 has returned a result with a ChangeRecord while thread 2, on a
\* different pair of snapshots, is inside its loop and holds a ChangeRecord
C14_Witness ==
  /\ threads # <<>>
  /\ threads[1].pc = "done"
  /\ threads[1].result.changes # <<>>
  /\ threads[2].pc = "loop"
  /\ threads[2].loop.changes # <<>>
  /\ <<threads[1].current_df, threads[1].previous_df>>
       # <<threads[2].current_df, threads[2].previous_df>>

-----------------------------------------------------------------------------
(* The snapshots handed to compare and to MetricsCalculator by one run *)

\* the largest number of rows the two snapshots of SpecFrame hold together
MaxFrameRows == 2

\* rows with an amount or none, a close date or none, created on day 69
FrameRows ==
  {MetricRow(id, usd, Timestamp(69, 0), close) :
     id \in {"A", "B"}, usd \in {Num(50), NA}, close \in {NA, Timestamp(99, 0)}}

InitFrame ==
  /\ \E n \in 0..MaxFrameRows : \E m \in 0..(MaxFrameRows - n) :
       /\ current_df \in FramesOfLen(FrameRows, n)
       /\ previous_df \in FramesOfLen(FrameRows, m)
  /\ locals = NoLocals
  /\ result = NoResult
  /\ pc = "loaded"
  /\ IdleExcept({"compare"})

NextFrame == Compare \/ ConstructMetrics \/ QueryAttention

SpecFrame == InitFrame /\ [][NextFrame]_vars

\* C15: no step of compare, of the construction of MetricsCalculator or of
\* its query changes the snapshots the caller passed in: they keep their
\* rows, columns and values, and the derived columns live in self.df only
C15_InputsUnchanged ==
  [][current_df' = current_df /\ previous_df' = previous_df]_vars

\* compare has found a change, MetricsCalculator has coerced a missing
\* amount to 0 in its own copy and has answered a query with a row, and the
\* caller's row still holds the missing amount and no derived column
C15_Witness ==
  /\ pc = "compared"
  /\ result.changes # <<>>
  /\ mpc = "queried"
  /\ attention # <<>>
  /\ \E i \in 1..Len(current_df) :
       /\ isna(current_df[i][COL_USD])
       /\ self_df[i][COL_USD] = Num(0)
       /\ "_is_stagnant" \in DOMAIN self_df[i]
       /\ "_is_stagnant" \notin DOMAIN current_df[i]

-----------------------------------------------------------------------------
(* The analysis jobs of the API: JobManager (src/src/api/jobs.py), the     *)
(* background task and the result handler (src/src/api/routes/analysis.py). *)
(* The task runs on its own thread; the handler runs on the server's.  A   *)
(* method of JobManager holds _jobs_lock from its first line to its last,  *)
(* but the handler reads the fields of the Job it was handed without the   *)
(* lock, so every assignment to a field of a Job is a step of its own.     *)

PENDING == "PENDING"
RUNNING == "RUNNING"
COMPLETED == "COMPLETED"
FAILED == "FAILED"

\* None in a field that holds a text or a timestamp; a missing result
\* dictionary is NA
None == "None"

\* the job id create_job draws
NewJobId == "j1"

\* the job ids a client asks for: the one created and one never created
RequestedJobIds == {NewJobId, "zz"}

\* str(e) of an exception that ends the task: a message, or the empty text
ErrorMessages == {"No se encontraron archivos CSV", ""}

\* Job(job_id, status=PENDING, created_at=now, request_params)
NewJob(job_id) ==
  [job_id |-> job_id, status |-> PENDING, started_at |-> None,
   completed_at |-> None, progress |-> None, error |-> None, result |-> NA]

\* the result dictionary run_analysis_task builds
ResultOf(job_id) == [t |-> "dict", job_id |-> job_id, status |-> COMPLETED]

\* the positions of run_analysis_task at which it calls update_status, with
\* the status and the progress text it passes
UpdateCalls ==
  "progress_load" :> [status |-> RUNNING, progress |-> "Cargando datos...", next |-> "load"]
    @@ "progress_metrics" :>
         [status |-> RUNNING, progress |-> "Calculando metricas...", next |-> "metrics"]
    @@ "progress_compare" :>
         [status |-> RUNNING, progress |-> "Comparando con periodo anterior...",
          next |-> "compare"]
    @@ "progress_reports" :>
         [status |-> RUNNING, progress |-> "Generando reportes...", next |-> "reports"]
    @@ "failed" :> [status |-> FAILED, progress |-> None, next |-> "end"]

\* the ready state of the API: no job, no request
InitJobs ==
  /\ jobs = <<>>
  /\ jobs_lock = "free"
  /\ task = [pc |-> "none", at |-> "call", write |-> 0, job_id |-> None,
             compare_with_previous |-> FALSE, error |-> None,
             raised_in |-> None, caught |-> {}]
  /\ request = [pc |-> "idle", job_id |-> None, found |-> FALSE,
                at_lookup |-> None, response |-> [code |-> 0, body |-> NA]]
  /\ IdleExcept({"jobs"})

JobsUp == task # <<>>

\* POST /run: create_job under the lock, then the thread is started
RunAnalysis ==
  /\ JobsUp
  /\ task.pc = "none"
  /\ jobs_lock = "free"
  /\ jobs' = (NewJobId :> NewJob(NewJobId)) @@ jobs
  /\ \E compare_with_previous \in BOOLEAN :
       task' = [task EXCEPT !.pc = "progress_load", !.job_id = NewJobId,
                            !.compare_with_previous = compare_with_previous]
  /\ UNCHANGED <<jobs_lock, request>>
  /\ Others({"jobs"})

\* update_status, lines 81-84: the lock is taken and the job looked up
UpdateStatusEnter ==
  /\ JobsUp
  /\ task.pc \in DOMAIN UpdateCalls
  /\ task.at = "call"
  /\ jobs_lock = "free"
  /\ jobs_lock' = "task"
  /\ task' = [task EXCEPT !.at = "status"]
  /\ UNCHANGED <<jobs, request>>
  /\ Others({"jobs"})

\* update_status, line 86
UpdateStatusWriteStatus ==
  /\ JobsUp
  /\ task.pc \in DOMAIN UpdateCalls
  /\ task.at = "status"
  /\ jobs' = [jobs EXCEPT ![task.job_id].status = UpdateCalls[task.pc].status]
  /\ task' = [task EXCEPT !.at = "progress"]
  /\ UNCHANGED <<jobs_lock, request>>
  /\ Others({"jobs"})

\* a text is truthy unless it is None or empty
Truthy(text) == text # None /\ text # ""

\* update_status, lines 87-90: progress and error are stored if truthy
UpdateStatusWriteProgress ==
  /\ JobsUp
  /\ task.pc \in DOMAIN UpdateCalls
  /\ task.at = "progress"
  /\ LET progress == UpdateCalls[task.pc].progress
         error == IF task.pc = "failed" THEN task.error ELSE None
     IN jobs' = [jobs EXCEPT
                   ![task.job_id].progress = IF Truthy(progress) THEN progress ELSE @,
                   ![task.job_id].error = IF Truthy(error) THEN error ELSE @]
  /\ task' = [task EXCEPT !.at = "stamp"]
  /\ UNCHANGED <<jobs_lock, request>>
  /\ Others({"jobs"})

\* an update_status that stamps started_at at every RUNNING update
stamps_started_at_every_update(status, job) == status = RUNNING

\* update_status, line 92: status == RUNNING and not job.started_at
stamps_started_at(status, job) == status = RUNNING /\ job.started_at = None

\* update_status, lines 92-98: the timestamps, and the lock is released;
\* a reading of the clock is named after the call that takes it
UpdateStatusStamp ==
  /\ JobsUp
  /\ task.pc \in DOMAIN UpdateCalls
  /\ task.at = "stamp"
  /\ LET status == UpdateCalls[task.pc].status
         job == jobs[task.job_id]
     IN jobs' = [jobs EXCEPT
                   ![task.job_id].started_at =
                      IF stamps_started_at(status, job) THEN task.pc ELSE @,
                   ![task.job_id].completed_at =
                      IF ~stamps_started_at(status, job)
                           /\ status \in {COMPLETED, FAILED}
                        THEN task.pc ELSE @]
  /\ jobs_lock' = "free"
  /\ task' = [task EXCEPT !.pc = UpdateCalls[task.pc].next, !.at = "call"]
  /\ UNCHANGED request
  /\ Others({"jobs"})

\* an exception reaches the outer except of run_analysis_task
RaiseTo(error) ==
  task' = [task EXCEPT !.pc = "failed", !.error = error, !.raised_in = task.pc]

\* lines 56-67: the data is loaded, or the loader raises
LoadData ==
  /\ JobsUp
  /\ task.pc = "load"
  /\ \/ task' = [task EXCEPT !.pc = "progress_metrics"]
     \/ \E error \in ErrorMessages : RaiseTo(error)
  /\ UNCHANGED <<jobs, jobs_lock, request>>
  /\ Others({"jobs"})

\* lines 71-78: the metrics are computed, or MetricsCalculator raises
CalculateMetrics ==
  /\ JobsUp
  /\ task.pc = "metrics"
  /\ \/ task' = [task EXCEPT !.pc = IF task.compare_with_previous
                                     THEN "progress_compare" ELSE "progress_reports"]
     \/ \E error \in ErrorMessages : RaiseTo(error)
  /\ UNCHANGED <<jobs, jobs_lock, request>>
  /\ Others({"jobs"})

\* lines 80-95: the comparison; its exceptions are caught and logged
CompareWithPrevious ==
  /\ JobsUp
  /\ task.pc = "compare"
  /\ \E raised \in BOOLEAN :
       task' = [task EXCEPT !.pc = "progress_reports",
                            !.caught = IF raised THEN @ \cup {"compare"} ELSE @]
  /\ UNCHANGED <<jobs, jobs_lock, request>>
  /\ Others({"jobs"})

\* lines 103-112: the reports; their exceptions are caught and logged
GenerateReports ==
  /\ JobsUp
  /\ task.pc = "reports"
  /\ \E raised \in BOOLEAN :
       task' = [task EXCEPT !.pc = "build_result",
                            !.caught = IF raised THEN @ \cup {"reports"} ELSE @]
  /\ UNCHANGED <<jobs, jobs_lock, request>>
  /\ Others({"jobs"})

\* lines 114-152: the result dictionary is built, or a lookup raises
BuildResult ==
  /\ JobsUp
  /\ task.pc = "build_result"
  /\ \/ task' = [task EXCEPT !.pc = "set_result", !.at = "call"]
     \/ \E error \in ErrorMessages : RaiseTo(error)
  /\ UNCHANGED <<jobs, jobs_lock, request>>
  /\ Others({"jobs"})

\* set_result with the status stored before the result
set_result_status_first == <<"status", "result", "stamp">>

\* set_result, lines 107-109: the order of its three assignments
set_result_writes == <<"result", "status", "stamp">>

\* set_result, lines 102-105: the lock is taken and the job looked up
SetResultEnter ==
  /\ JobsUp
  /\ task.pc = "set_result"
  /\ task.at = "call"
  /\ jobs_lock = "free"
  /\ jobs_lock' = "task"
  /\ task' = [task EXCEPT !.at = "write", !.write = 1]
  /\ UNCHANGED <<jobs, request>>
  /\ Others({"jobs"})

\* set_result, lines 107-110: one assignment; the last releases the lock
SetResultWrite ==
  /\ JobsUp
  /\ task.pc = "set_result"
  /\ task.at = "write"
  /\ LET field == set_result_writes[task.write]
     IN jobs' = [jobs EXCEPT
                   ![task.job_id].result =
                      IF field = "result" THEN ResultOf(task.job_id) ELSE @,
                   ![task.job_id].status = IF field = "status" THEN COMPLETED ELSE @,
                   ![task.job_id].completed_at = IF field = "stamp" THEN task.pc ELSE @]
  /\ IF task.write = Len(set_result_writes)
       THEN /\ jobs_lock' = "free"
            /\ task' = [task EXCEPT !.pc = "end", !.at = "call", !.write = 0]
       ELSE /\ jobs_lock' = jobs_lock
            /\ task' = [task EXCEPT !.write = @ + 1]
  /\ UNCHANGED request
  /\ Others({"jobs"})

\* a client sends GET /{job_id}/result
RequestResult ==
  /\ JobsUp
  /\ request.pc \in {"idle", "responded"}
  /\ \E job_id \in RequestedJobIds :
       request' = [pc |-> "get_job", job_id |-> job_id, found |-> FALSE,
                   at_lookup |-> None, response |-> [code |-> 0, body |-> NA]]
  /\ UNCHANGED <<jobs, jobs_lock, task>>
  /\ Others({"jobs"})

Respond(code, body) ==
  [request EXCEPT !.pc = "responded", !.response = [code |-> code, body |-> body]]

\* lines 213-215: get_job under the lock; 404 if there is no such job.
\* at_lookup records the status the job had at that moment.
GetJob ==
  /\ JobsUp
  /\ request.pc = "get_job"
  /\ jobs_lock = "free"
  /\ IF request.job_id \in DOMAIN jobs
       THEN request' = [request EXCEPT !.pc = "check_pending", !.found = TRUE,
                                       !.at_lookup = jobs[request.job_id].status]
       ELSE request' = Respond(404, NA)
  /\ UNCHANGED <<jobs, jobs_lock, task>>
  /\ Others({"jobs"})

\* lines 217-218: job.status is read; 202 if it is PENDING
CheckPending ==
  /\ JobsUp
  /\ request.pc = "check_pending"
  /\ request' = IF jobs[request.job_id].status = PENDING
                  THEN Respond(202, NA)
                  ELSE [request EXCEPT !.pc = "check_running"]
  /\ UNCHANGED <<jobs, jobs_lock, task>>
  /\ Others({"jobs"})

\* lines 220-221: job.status is read again; 202 if it is RUNNING
CheckRunning ==
  /\ JobsUp
  /\ request.pc = "check_running"
  /\ request' = IF jobs[request.job_id].status = RUNNING
                  THEN Respond(202, NA)
                  ELSE [request EXCEPT !.pc = "check_failed"]
  /\ UNCHANGED <<jobs, jobs_lock, task>>
  /\ Others({"jobs"})

\* lines 223-224: job.status is read a third time; 500 if it is FAILED
CheckFailed ==
  /\ JobsUp
  /\ request.pc = "check_failed"
  /\ request' = IF jobs[request.job_id].status = FAILED
                  THEN Respond(500, NA)
                  ELSE [request EXCEPT !.pc = "return"]
  /\ UNCHANGED <<jobs, jobs_lock, task>>
  /\ Others({"jobs"})

\* line 226: job.result is read and returned
ReturnResult ==
  /\ JobsUp
  /\ request.pc = "return"
  /\ request' = Respond(200, jobs[request.job_id].result)
  /\ UNCHANGED <<jobs, jobs_lock, task>>
  /\ Others({"jobs"})

TaskStep ==
  \/ UpdateStatusEnter
  \/ UpdateStatusWriteStatus
  \/ UpdateStatusWriteProgress
  \/ UpdateStatusStamp
  \/ LoadData
  \/ CalculateMetrics
  \/ CompareWithPrevious
  \/ GenerateReports
  \/ BuildResult
  \/ SetResultEnter
  \/ SetResultWrite

HandlerStep ==
  \/ RequestResult
  \/ GetJob
  \/ CheckPending
  \/ CheckRunning
  \/ CheckFailed
  \/ ReturnResult

NextJobs == RunAnalysis \/ TaskStep \/ HandlerStep

SpecJobs == InitJobs /\ [][NextJobs]_vars

-----------------------------------------------------------------------------
(* Properties of the result handler *)

Responded == JobsUp /\ request.pc = "responded"

\* C16: under every interleaving of the handler with the background task,
\* a normal return carries the non-null result set by set_result and its job
\* is COMPLETED; 500 is given for a FAILED job only and a job FAILED at the
\* lookup gets 500; 202 is given for a job that was PENDING or RUNNING at the
\* lookup, and a job still PENDING or RUNNING gets 202; 404 is given exactly
\* for a job id that get_job did not find
C16_ResultOnlyWhenCompleted ==
  Responded =>
    LET code == request.response.code
        body == request.response.body
        job_id == request.job_id
    IN /\ code \in {200, 202, 404, 500}
       /\ code = 200 =>
            /\ ~isna(body)
            /\ body = ResultOf(job_id)
            /\ jobs[job_id].status = COMPLETED
            /\ jobs[job_id].result = body
       /\ code = 500 => jobs[job_id].status = FAILED
       /\ code = 202 => request.at_lookup \in {PENDING, RUNNING}
       /\ code = 404 <=> ~request.found
       /\ job_id \notin DOMAIN jobs => code = 404
       /\ request.at_lookup = COMPLETED => code = 200
       /\ request.at_lookup = FAILED => code = 500
       /\ (request.found /\ jobs[job_id].status \in {PENDING, RUNNING}) => code = 202

\* the handler found the job RUNNING at the lookup, the task completed it
\* while the handler was checking, and the handler returned the result
C16_Witness ==
  /\ Responded
  /\ request.at_lookup = RUNNING
  /\ request.response.code = 200
  /\ request.response.body = ResultOf(NewJobId)

-----------------------------------------------------------------------------
(* The life of a job *)

Created == JobsUp /\ NewJobId \in DOMAIN jobs

Terminal(status) == status \in {COMPLETED, FAILED}

\* no call of update_status or set_result is under way
Settled == jobs_lock = "free"

\* the changes of status a step may make
StatusStep ==
  LET old == jobs[NewJobId].status
      new == jobs'[NewJobId].status
  IN \/ new = old
     \/ old = PENDING /\ new = RUNNING
     \/ old = RUNNING /\ Terminal(new)

\* the changes of the two timestamps a step may make
StampStep ==
  LET old == jobs[NewJobId]
      new == jobs'[NewJobId]
  IN /\ old.started_at # None => new.started_at = old.started_at
     /\ old.completed_at # None => new.completed_at = old.completed_at
     /\ new.started_at # old.started_at => new.started_at = "progress_load"
     /\ new.completed_at # old.completed_at => Terminal(new.status)

\* C28: the status of a job goes from PENDING to RUNNING, stays RUNNING over
\* the progress updates, and goes to COMPLETED or to FAILED, where it stays;
\* started_at is set by the first RUNNING update and never again, and
\* completed_at is set by the call that enters the terminal status and at
\* no other time
C28_Lifecycle ==
  /\ [](Created =>
          LET job == jobs[NewJobId]
          IN /\ job.status \in {PENDING, RUNNING, COMPLETED, FAILED}
             /\ job.status = PENDING => job.started_at = None /\ job.completed_at = None
             /\ job.completed_at # None => Terminal(job.status)
             /\ job.started_at \in {None, "progress_load"}
             /\ Settled => /\ job.started_at # None <=> job.status # PENDING
                           /\ job.completed_at # None <=> Terminal(job.status))
  /\ [][Created => NewJobId \in DOMAIN jobs' /\ StatusStep /\ StampStep]_vars

\* a job completed after the comparison, stamped by its first update and
\* by set_result
C28_Witness ==
  /\ Created
  /\ Settled
  /\ task.compare_with_previous
  /\ jobs[NewJobId].status = COMPLETED
  /\ jobs[NewJobId].started_at = "progress_load"
  /\ jobs[NewJobId].completed_at = "set_result"
  /\ jobs[NewJobId].progress = "Generando reportes..."

\* the worker thread keeps being scheduled
SpecJobsFair == InitJobs /\ [][NextJobs]_vars /\ WF_vars(TaskStep)

\* every job created ends COMPLETED or FAILED
EventuallyTerminal == Created ~> (Created /\ Terminal(jobs[NewJobId].status))

\* a FAILED job has an exception that left the try block behind it
FailedOnlyByEscape == [](Created /\ jobs[NewJobId].status = FAILED => task.raised_in # None)

\* caught failures of the comparison and of the reports leave the job on
\* its way: it is not FAILED unless something else raised
CaughtDoesNotFail ==
  []((Created /\ task.caught # {} /\ task.raised_in = None)
        => jobs[NewJobId].status # FAILED)

\* an exception of the load or of the metrics ends in FAILED with its message
ErrorRecorded ==
  []((Created /\ task.raised_in \in {"load", "metrics"} /\ task.pc = "end")
        => /\ jobs[NewJobId].status = FAILED
           /\ jobs[NewJobId].error = task.error)

\* C29: every job created reaches COMPLETED or FAILED if its thread keeps
\* running; an exception raised while loading the data or computing the
\* metrics leaves the job FAILED with the message of the exception recorded;
\* a failure of the comparison or of the reports alone does not
C29_Original ==
  /\ EventuallyTerminal
  /\ ErrorRecorded
  /\ FailedOnlyByEscape
  /\ CaughtDoesNotFail

-----------------------------------------------------------------------------
(* Field changes: one opportunity whose tracked fields take several values *)

\* a row without its KPI column
WithoutKpi(row) == [c \in DOMAIN row \ {COL_KPI} |-> row[c]]

\* opportunity A at two stages, with two responsibles, an amount or none, a
\* close date (day 1 at two times of the day, or day 2) or none, a KPI or
\* none; and the same rows from a file that has no KPI column
FieldRows ==
  LET rows == {Row("A", stage, responsible, usd, close_date, kpi, Str("Colombia")) :
                 stage \in {Str("Construction"), Str("Work Execution")},
                 responsible \in {Str("Alice"), Str("Bob")},
                 usd \in {Num(50), Num(100), NA},
                 close_date \in {NA, Timestamp(1, 0), Timestamp(1, 9), Timestamp(2, 0)},
                 kpi \in {NA, Str("DC003")}}
  IN rows \cup {WithoutKpi(row) : row \in {r \in rows : isna(r[COL_KPI])}}

InitFields ==
  /\ current_df \in FramesOfLen(FieldRows, 1)
  /\ previous_df \in FramesOfLen(FieldRows, 1)
  /\ locals = NoLocals
  /\ result = NoResult
  /\ pc = "loaded"
  /\ IdleExcept({"compare"})

SpecFields == InitFields /\ [][Next]_vars

\* the two values of a tracked field differ: exactly one is missing, or
\* neither is and they are two timestamps of different days or two other
\* values that are not the same
Unequal(a, b) ==
  IF isna(a) /\ isna(b) THEN FALSE
  ELSE IF isna(a) \/ isna(b) THEN TRUE
  ELSE IF a.t = "timestamp" /\ b.t = "timestamp" THEN a.day # b.day
  ELSE a # b

\* the ChangeRecords of opportunity A for one field
FieldRecords(column) ==
  {i \in 1..Len(result.changes) :
     result.changes[i].opportunity_id = "A" /\ result.changes[i].field = column}

\* the tracked fields present in both rows of A whose values differ
DifferingFields ==
  {i \in 1..Len(TRACKED_COLUMNS) :
     /\ TRACKED_COLUMNS[i] \in DOMAIN current_df[1] \cap DOMAIN previous_df[1]
     /\ Unequal(current_df[1][TRACKED_COLUMNS[i]], previous_df[1][TRACKED_COLUMNS[i]])}

\* C17: for the common id and every tracked field, compare emits exactly one
\* ChangeRecord if the field is present in both rows and its two values are
\* unequal (dates at day granularity) and none otherwise; the number of
\* ChangeRecords of the id is the number of its tracked fields that differ
C17_OneRecordPerUnequalField ==
  Compared =>
    /\ \A i \in 1..Len(TRACKED_COLUMNS) :
         Cardinality(FieldRecords(TRACKED_COLUMNS[i]))
           = IF i \in DifferingFields THEN 1 ELSE 0
    /\ Len(result.changes) = Cardinality(DifferingFields)

\* the close date moved within the same day and that is no change, while
\* the amount went from a number to none and the responsible changed: two
\* ChangeRecords
C17_Witness ==
  /\ Compared
  /\ current_df[1][COL_CLOSE_DATE] = Timestamp(1, 9)
  /\ previous_df[1][COL_CLOSE_DATE] = Timestamp(1, 0)
  /\ isna(current_df[1][COL_USD])
  /\ previous_df[1][COL_USD] = Num(50)
  /\ FieldRecords(COL_CLOSE_DATE) = {}
  /\ Cardinality(FieldRecords(COL_USD)) = 1
  /\ Len(result.changes) = 2

-----------------------------------------------------------------------------
(* ChangeDetector._classify_change on every pair of values *)

\* the values of a cell: the stages, a responsible, a KPI, numbers, a text
\* that is no number, timestamps, and the missing value
CellValues ==
  StageValues \cup {Str("Alice"), Str("DC003"), Str("n/a"), Num(50), Num(100),
                    Timestamp(1, 0), Timestamp(2, 0)}

InitClassify ==
  /\ \E i \in 1..Len(TRACKED_COLUMNS) : \E new_val \in CellValues, old_val \in CellValues :
       classify_call = [column |-> TRACKED_COLUMNS[i], new_val |-> new_val,
                        old_val |-> old_val, change_type |-> "pending"]
  /\ IdleExcept({"classify"})

\* self._classify_change(column, current_val, previous_val)
ClassifyChange ==
  /\ classify_call # <<>>
  /\ classify_call.change_type = "pending"
  /\ classify_call' =
       [classify_call EXCEPT !.change_type =
          classify_change(classify_call.column, classify_call.new_val,
                          classify_call.old_val)]
  /\ Others({"classify"})

NextClassify == ClassifyChange

SpecClassify == InitClassify /\ [][NextClassify]_vars

Classified == classify_call # <<>> /\ classify_call.change_type # "pending"

\* C18: the change type follows from the field: for USD value_increase iff
\* both values are numbers and the new one is greater, value_decrease
\* otherwise (a missing or non-numeric value included); reassignment for
\* Responsible; reschedule for CloseDate; one of the three stage types for
\* Stage; modified for KPI
C18_TypeByField ==
  Classified =>
    LET column == classify_call.column
        new_val == classify_call.new_val
        old_val == classify_call.old_val
        change_type == classify_call.change_type
        increase == new_val.t = "num" /\ old_val.t = "num" /\ new_val.n > old_val.n
    IN /\ column = "USD" =>
            /\ change_type \in {"value_increase", "value_decrease"}
            /\ change_type = "value_increase" <=> increase
       /\ column = "Responsible" => change_type = "reassignment"
       /\ column = "CloseDate" => change_type = "reschedule"
       /\ column = "Stage" =>
            change_type \in {"stage_advance", "stage_regress", "stage_change"}
       /\ column = "KPI" => change_type = "modified"

\* a USD change from a number to a text that is no number: value_decrease
C18_Witness ==
  /\ Classified
  /\ classify_call.column = "USD"
  /\ classify_call.old_val = Num(50)
  /\ classify_call.new_val = Str("n/a")
  /\ classify_call.change_type = "value_decrease"

-----------------------------------------------------------------------------
(* Summaries: two opportunities of different responsibles and markets *)

\* the largest number of rows the two snapshots of SpecSummary hold together
MaxSummaryRows == 4

\* A of Colombia, with Alice or Bob, at two amounts; B of Peru, with Bob, at
\* two amounts
SummaryRows ==
  {Row("A", Str("Construction"), responsible, Num(usd), NA, NA, Str("Colombia")) :
     responsible \in {Str("Alice"), Str("Bob")}, usd \in {50, 100}}
    \cup {Row("B", Str("Construction"), Str("Bob"), Num(usd), NA, NA, Str("Peru")) :
            usd \in {10, 20}}

InitSummary ==
  /\ \E n \in 0..MaxSummaryRows : \E m \in 0..(MaxSummaryRows - n) :
       /\ current_df \in FramesOfLen(SummaryRows, n)
       /\ previous_df \in FramesOfLen(SummaryRows, m)
  /\ locals = NoLocals
  /\ result = NoResult
  /\ pc = "loaded"
  /\ IdleExcept({"compare"})

SpecSummary == InitSummary /\ [][Next]_vars

\* the sum of the values of a dictionary of counts
RECURSIVE SumOfCounts(_)
SumOfCounts(counts) ==
  IF DOMAIN counts = {} THEN 0
  ELSE LET k == CHOOSE x \in DOMAIN counts : TRUE
       IN counts[k] + SumOfCounts([x \in DOMAIN counts \ {k} |-> counts[x]])

\* the number of ChangeRecords of the opportunities whose ChangeRecords
\* carry the given value under key
RECURSIVE RecordsOfIds(_, _, _)
RecordsOfIds(ids, key, value) ==
  IF ids = {} THEN 0
  ELSE LET id == CHOOSE x \in ids : TRUE
           mine == \E i \in RecordsOf(id) : result.changes[i][key] = value
       IN (IF mine THEN Cardinality(RecordsOf(id)) ELSE 0)
            + RecordsOfIds(ids \ {id}, key, value)

\* C19: changed_count is the number of distinct ids with a ChangeRecord,
\* total_changes the number of ChangeRecords, the values of each breakdown
\* sum to total_changes, and an opportunity with k ChangeRecords adds k to
\* the count of its responsible and of its market
C19_BreakdownsPerRecord ==
  Compared =>
    LET summary == result.summary
    IN /\ summary.changed_count = Cardinality(ChangedIds)
       /\ summary.total_changes = Len(result.changes)
       /\ SumOfCounts(summary.changes_by_type) = summary.total_changes
       /\ SumOfCounts(summary.changes_by_responsible) = summary.total_changes
       /\ SumOfCounts(summary.changes_by_market) = summary.total_changes
       /\ \A r \in DOMAIN summary.changes_by_responsible :
            summary.changes_by_responsible[r] = RecordsOfIds(ChangedIds, "responsible", r)
       /\ \A m \in DOMAIN summary.changes_by_market :
            summary.changes_by_market[m] = RecordsOfIds(ChangedIds, "market", m)

\* A has two changed fields and B one, both now with Bob: two changed
\* opportunities, three ChangeRecords, all three counted for Bob, two for
\* Colombia and one for Peru
C19_Witness ==
  /\ Compared
  /\ result.summary.changed_count = 2
  /\ result.summary.total_changes = 3
  /\ Cardinality(RecordsOf("A")) = 2
  /\ result.summary.changes_by_responsible = (Str("Bob") :> 3)
  /\ result.summary.changes_by_market = (Str("Colombia") :> 2 @@ Str("Peru") :> 1)

-----------------------------------------------------------------------------
(* The counts of the summary *)

\* C20: the summary counts add up: new_count + changed_count +
\* unchanged_count = total_current and removed_count + changed_count +
\* unchanged_count = total_previous
C20_Original ==
  Compared =>
    LET summary == result.summary
    IN /\ summary.new_count + summary.changed_count + summary.unchanged_count
            = summary.total_current
       /\ summary.removed_count + summary.changed_count + summary.unchanged_count
            = summary.total_previous

-----------------------------------------------------------------------------
(* The opportunities that need attention *)

\* the largest number of rows of the snapshot of SpecAttention
MaxAttentionRows == 2

\* created 31 or 30 days before day 100 or on no date; closing the day
\* before, on day 100, 6 or 7 days after it, or never
AttentionRows ==
  {MetricRow(id, Num(50), created, close) :
     id \in {"A", "B"},
     created \in {NA, Timestamp(69, 0), Timestamp(70, 0)},
     close \in {NA, Timestamp(99, 0), Timestamp(100, 0), Timestamp(106, 0),
                Timestamp(107, 0)}}

InitAttention ==
  /\ \E n \in 0..MaxAttentionRows : current_df \in FramesOfLen(AttentionRows, n)
  /\ previous_df = <<>>
  /\ locals = NoLocals
  /\ result = NoResult
  /\ pc = "loaded"
  /\ IdleExcept({"compare"})

SpecAttention == InitAttention /\ [][NextMetrics]_vars

Queried == mpc = "queried"

\* whole days from the clock reading to the close date of row i, and
\* from its creation to the clock reading, recomputed from the caller's row
DaysToClose(i) ==
  ((current_df[i][COL_CLOSE_DATE].day * HoursPerDay + current_df[i][COL_CLOSE_DATE].time)
     - (today.day * HoursPerDay + today.time)) \div HoursPerDay

HasCloseDate(i) == ~isna(current_df[i][COL_CLOSE_DATE])
HasCreatedDate(i) == ~isna(current_df[i][COL_CREATED_DATE])

Overdue(i) == HasCloseDate(i) /\ DaysToClose(i) < 0
AtRisk(i) == HasCloseDate(i) /\ DaysToClose(i) < WARNING_DAYS_BEFORE_CLOSE
Stagnant(i) == HasCreatedDate(i) /\ DaysSinceCreation(i) > STAGNANT_DAYS_THRESHOLD

NeedsUpdate(i) == AtRisk(i) \/ Stagnant(i) \/ Overdue(i)

\* a returned row without its alert reason
WithoutReason(row) == [c \in DOMAIN row \ {"Razon_Alerta"} |-> row[c]]

\* the positions of the returned frame that hold the prepared row i
ReturnedAs(i) ==
  {k \in 1..Len(attention) : WithoutReason(attention[k]) = self_df[i]}

\* C21: the frame returned holds exactly the rows that are at risk (fewer
\* than 7 days to close), stagnant (more than 30 days since creation) or
\* overdue, each as often as the snapshot holds it and no other row; a row
\* with no close date is returned only if it is stagnant
C21_ExactlyTheRowsToUpdate ==
  Queried =>
    /\ Len(attention) = Cardinality({i \in 1..Len(self_df) : NeedsUpdate(i)})
    /\ \A i \in 1..Len(self_df) :
         /\ Cardinality(ReturnedAs(i))
              = IF NeedsUpdate(i)
                  THEN Cardinality({j \in 1..Len(self_df) : self_df[j] = self_df[i]})
                  ELSE 0
         /\ (~HasCloseDate(i) /\ ReturnedAs(i) # {}) => Stagnant(i)

\* a snapshot of a row closing in exactly 7 days and 30 days old, which is
\* left out, and a stagnant row with no close date, which is returned
C21_Witness ==
  /\ Queried
  /\ Len(self_df) = 2
  /\ Len(attention) = 1
  /\ \E i, j \in 1..2 :
       /\ HasCloseDate(i) /\ DaysToClose(i) = WARNING_DAYS_BEFORE_CLOSE
       /\ ReturnedAs(i) = {}
       /\ ~HasCloseDate(j) /\ Stagnant(j)
       /\ ReturnedAs(j) # {}

\* the alert reason of the prepared row i, from the caller's row
ReasonOf(i) ==
  (IF Overdue(i) THEN "VENCIDA" ELSE IF AtRisk(i) THEN "PROX_VENCER" ELSE "")
    \o (IF Stagnant(i) THEN " ESTANCADA" ELSE "")

\* C22: every returned row carries the reason VENCIDA iff it is overdue,
\* otherwise PROX_VENCER iff it is at risk, followed by ESTANCADA iff it is
\* stagnant; the first two never appear together and the reason is never
\* empty
C22_AlertReason ==
  Queried =>
    \A i \in 1..Len(self_df) : \A k \in ReturnedAs(i) :
      /\ attention[k]["Razon_Alerta"] = ReasonOf(i)
      /\ attention[k]["Razon_Alerta"] # ""
      /\ attention[k]["Razon_Alerta"]
           \in {"VENCIDA", "PROX_VENCER", " ESTANCADA", "VENCIDA ESTANCADA",
                "PROX_VENCER ESTANCADA"}

\* an overdue stagnant row and a row due on the very day, both returned
C22_Witness ==
  /\ Queried
  /\ \E k, l \in 1..Len(attention) :
       /\ attention[k]["Razon_Alerta"] = "VENCIDA ESTANCADA"
       /\ attention[l]["Razon_Alerta"] = "PROX_VENCER"
       /\ attention[l]["_days_to_close"] = Num(0)

\* C23: the returned rows are in ascending order of days_to_close, rows
\* without days_to_close last, and rows of equal days_to_close in
\* descending order of days_since_creation
C23_SortOrder ==
  Queried =>
    \A k, l \in 1..Len(attention) :
      k < l =>
        LET ck == attention[k]["_days_to_close"]
            cl == attention[l]["_days_to_close"]
            sk == attention[k]["_days_since_creation"]
            sl == attention[l]["_days_since_creation"]
        IN /\ isna(ck) => isna(cl)
           /\ (~isna(ck) /\ ~isna(cl)) => ck.n <= cl.n
           /\ (ck = cl /\ ~isna(sk) /\ ~isna(sl)) => sk.n >= sl.n

\* two rows of equal days_to_close returned with the older one first though
\* it came second in the snapshot
C23_Witness ==
  /\ Queried
  /\ Len(attention) = 2
  /\ attention[1]["_days_to_close"] = attention[2]["_days_to_close"]
  /\ attention[1]["_days_since_creation"] = Num(31)
  /\ attention[2]["_days_since_creation"] = Num(30)
  /\ WithoutReason(attention[1]) = self_df[2]

-----------------------------------------------------------------------------
(* MetricsCalculator: aggregates per responsible and per market *)

\* the strings of the grouping columns, in the ascending order of Python strings
StrOrder == <<"Alice", "Bob", "Colombia", "Peru">>

\* Python's < on two of these strings
str_lt(a, b) ==
  \E i, j \in 1..Len(StrOrder) : StrOrder[i] = a /\ StrOrder[j] = b /\ i < j

\* the cells of one column, in row order
column(df, col) == [i \in 1..Len(df) |-> df[i][col]]

\* Series.unique(): the values in order of first appearance
RECURSIVE unique(_)
unique(values) ==
  IF values = <<>> THEN <<>>
  ELSE LET init == unique(SubSeq(values, 1, Len(values) - 1))
           last == values[Len(values)]
       IN IF \E i \in 1..Len(init) : init[i] = last THEN init ELSE Append(init, last)

\* Series.unique().tolist() of a column of strings
unique_tolist(values) == [i \in 1..Len(unique(values)) |-> unique(values)[i].s]

\* a groupby that yields its groups in order of first appearance
groupby_keys_unsorted(df, col) ==
  LET present(v) == ~isna(v)
  IN unique_tolist(SelectSeq(column(df, col), present))

\* the keys of df.groupby(col): the values present, sorted, missing ones dropped
groupby_keys(df, col) ==
  LET present(s) == \E i \in 1..Len(df) : df[i][col] = Str(s)
  IN SelectSeq(StrOrder, present)

\* the group of one key: its rows in row order
group_of(df, col, key) ==
  LET member(row) == row[col] = Str(key)
  IN SelectSeq(df, member)

\* Series.value_counts().to_dict(): the count of every value present
value_counts(values) ==
  [s \in {values[i].s : i \in {j \in 1..Len(values) : ~isna(values[j])}} |->
     Cardinality({i \in 1..Len(values) : values[i] = Str(s)})]

\* the values value_counts() may put first: its sort by count does not
\* fix the order of values of equal count
value_counts_first(values) ==
  {s \in DOMAIN value_counts(values) :
     \A t \in DOMAIN value_counts(values) :
       value_counts(values)[t] <= value_counts(values)[s]}

\* the number of rows of a group that carry a flag
flag_count(group, flag) == Cardinality({i \in 1..Len(group) : group[i][flag]})

\* a mean that divides the sum by the number of rows, rows or no rows
usd_mean_dividing(group) == [num |-> usd_sum(group), den |-> Len(group)]

\* float(Series.mean()) of the usd column: the sum over the number of rows,
\* NaN when there is no row
usd_mean(group) ==
  IF group = <<>> THEN NA ELSE [num |-> usd_sum(group), den |-> Len(group)]

ResponsibleMetrics(responsible, group) ==
  [name |-> responsible,
   total_opportunities |-> Len(group),
   total_usd |-> usd_sum(group),
   avg_usd |-> usd_mean(group),
   markets |-> unique_tolist(column(group, COL_MARKET)),
   kpis |-> value_counts(column(group, COL_KPI)),
   stages |-> value_counts(column(group, COL_STAGE)),
   stagnant_count |-> flag_count(group, "_is_stagnant"),
   at_risk_count |-> flag_count(group, "_is_at_risk")]

MarketMetrics(market, group, top_resp) ==
  [name |-> market,
   total_opportunities |-> Len(group),
   total_usd |-> usd_sum(group),
   avg_usd |-> usd_mean(group),
   responsibles |-> unique_tolist(column(group, COL_RESPONSIBLE)),
   top_responsible |-> top_resp,
   kpis |-> value_counts(column(group, COL_KPI)),
   stages |-> value_counts(column(group, COL_STAGE))]

\* list.sort(key=total_opportunities, reverse=True) is stable: an aggregate
\* goes behind every aggregate of a count not smaller than its own
list_insert(sorted, x) ==
  LET k == Cardinality({i \in 1..Len(sorted) :
                          sorted[i].total_opportunities >= x.total_opportunities})
  IN SubSeq(sorted, 1, k) \o <<x>> \o SubSeq(sorted, k + 1, Len(sorted))

RECURSIVE list_sort(_)
list_sort(metrics) ==
  IF metrics = <<>> THEN <<>>
  ELSE list_insert(list_sort(SubSeq(metrics, 1, Len(metrics) - 1)),
                   metrics[Len(metrics)])

get_responsible_metrics(df) ==
  LET keys == groupby_keys(df, COL_RESPONSIBLE)
  IN list_sort([k \in 1..Len(keys) |->
                  ResponsibleMetrics(keys[k], group_of(df, COL_RESPONSIBLE, keys[k]))])

\* the responsibles resp_counts.index[0] may be for one market
top_resp_of(df, market) ==
  LET resp_counts == column(group_of(df, COL_MARKET, market), COL_RESPONSIBLE)
  IN IF DOMAIN value_counts(resp_counts) = {} THEN {"N/A"}
     ELSE value_counts_first(resp_counts)

\* get_market_metrics, top[market] being the head of value_counts()
get_market_metrics(df, top) ==
  LET keys == groupby_keys(df, COL_MARKET)
  IN list_sort([k \in 1..Len(keys) |->
                  MarketMetrics(keys[k], group_of(df, COL_MARKET, keys[k]), top[keys[k]])])

Calculators == {1, 2}

\* the largest number of rows of the frame both calculators are fed
MaxGroupRows == 3

GroupRows ==
  {[MetricRow("A", Num(50), Timestamp(60, 0), Timestamp(120, 0))
      EXCEPT ![COL_RESPONSIBLE] = Str(r), ![COL_MARKET] = Str(m)] :
     r \in {"Alice", "Bob"}, m \in {"Colombia", "Peru"}}

NewCalculator(df) ==
  [df |-> df, self_df |-> <<>>, pc |-> "new",
   responsible_metrics |-> <<>>, market_metrics |-> <<>>]

\* the same rows handed to the two calculators, in any two row orders
InitGroup ==
  /\ \E n \in 0..MaxGroupRows :
       \E df \in FramesOfLen(GroupRows, n) : \E order \in Permutations(1..n) :
         calcs = [c \in Calculators |->
                    NewCalculator(IF c = 1 THEN df
                                  ELSE [i \in 1..n |-> df[order[i]]])]
  /\ IdleExcept({"group"})

\* MetricsCalculator(df)
Construct(c) ==
  /\ calcs[c].pc = "new"
  /\ \E now \in Nows :
       calcs' = [calcs EXCEPT ![c].df = metrics_init(calcs[c].df, now).df,
                              ![c].self_df = metrics_init(calcs[c].df, now).self_df,
                              ![c].pc = "ready"]
  /\ Others({"group"})

GetResponsibleMetrics(c) ==
  /\ calcs[c].pc = "ready"
  /\ calcs' = [calcs EXCEPT ![c].responsible_metrics =
                              get_responsible_metrics(calcs[c].self_df),
                            ![c].pc = "responsible"]
  /\ Others({"group"})

GetMarketMetrics(c) ==
  /\ calcs[c].pc = "responsible"
  /\ \E top \in [{"Colombia", "Peru"} -> {"Alice", "Bob", "N/A"}] :
       /\ \A m \in {"Colombia", "Peru"} : top[m] \in top_resp_of(calcs[c].self_df, m)
       /\ calcs' = [calcs EXCEPT ![c].market_metrics =
                                   get_market_metrics(calcs[c].self_df, top),
                                 ![c].pc = "market"]
  /\ Others({"group"})

NextGroup ==
  \E c \in Calculators :
    Construct(c) \/ GetResponsibleMetrics(c) \/ GetMarketMetrics(c)

SpecGroup == InitGroup /\ [][NextGroup]_vars

GroupsUp == calcs # <<>>

HasResponsibleMetrics(c) == GroupsUp /\ calcs[c].pc \in {"responsible", "market"}
HasMarketMetrics(c) == GroupsUp /\ calcs[c].pc = "market"

\* the rows of calculator c that name a responsible, or a market
RowsOfResponsible(c, name) ==
  {i \in 1..Len(calcs[c].df) : calcs[c].df[i][COL_RESPONSIBLE] = Str(name)}
RowsOfMarket(c, name) ==
  {i \in 1..Len(calcs[c].df) : calcs[c].df[i][COL_MARKET] = Str(name)}

NamesOf(metrics) == [k \in 1..Len(metrics) |-> metrics[k].name]

\* C24: get_responsible_metrics returns one aggregate per distinct
\* responsible, carrying the number of its rows, by descending count and,
\* for equal counts, by ascending name; the order is the same for the same
\* rows in another row order
C24_ResponsibleOrder ==
  /\ \A c \in Calculators :
       HasResponsibleMetrics(c) =>
         LET ms == calcs[c].responsible_metrics
         IN /\ \A name \in {"Alice", "Bob"} :
                 Cardinality({k \in 1..Len(ms) : ms[k].name = name})
                   = IF RowsOfResponsible(c, name) = {} THEN 0 ELSE 1
            /\ \A k \in 1..Len(ms) :
                 /\ ms[k].name \in {"Alice", "Bob"}
                 /\ ms[k].total_opportunities
                      = Cardinality(RowsOfResponsible(c, ms[k].name))
            /\ \A k, l \in 1..Len(ms) :
                 k < l =>
                   \/ ms[k].total_opportunities > ms[l].total_opportunities
                   \/ /\ ms[k].total_opportunities = ms[l].total_opportunities
                      /\ str_lt(ms[k].name, ms[l].name)
  /\ (HasResponsibleMetrics(1) /\ HasResponsibleMetrics(2)) =>
       NamesOf(calcs[1].responsible_metrics) = NamesOf(calcs[2].responsible_metrics)

\* Bob before Alice with one row each in one frame, Alice before Bob in the
\* other, and Alice listed first by both calculators
C24_Witness ==
  /\ HasResponsibleMetrics(1) /\ HasResponsibleMetrics(2)
  /\ column(calcs[1].df, COL_RESPONSIBLE) = <<Str("Bob"), Str("Alice")>>
  /\ column(calcs[2].df, COL_RESPONSIBLE) = <<Str("Alice"), Str("Bob")>>
  /\ NamesOf(calcs[1].responsible_metrics) = <<"Alice", "Bob">>
  /\ NamesOf(calcs[2].responsible_metrics) = <<"Alice", "Bob">>

\* the number of rows of a responsible in a market
RowsOfBoth(c, market, name) == RowsOfMarket(c, market) \cap RowsOfResponsible(c, name)

\* the responsibles with the most rows in a market
MostFrequent(c, market) ==
  {name \in {"Alice", "Bob"} :
     /\ RowsOfBoth(c, market, name) # {}
     /\ \A other \in {"Alice", "Bob"} :
          Cardinality(RowsOfBoth(c, market, other))
            <= Cardinality(RowsOfBoth(c, market, name))}

\* C25: top_responsible of every market is a responsible with the most rows
\* in that market, the first of them in alphabetical order, so the same
\* rows in another row order give the same top_responsible
C25_Original ==
  /\ \A c \in Calculators :
       HasMarketMetrics(c) =>
         \A k \in 1..Len(calcs[c].market_metrics) :
           LET mm == calcs[c].market_metrics[k]
           IN /\ mm.top_responsible \in MostFrequent(c, mm.name)
              /\ \A other \in MostFrequent(c, mm.name) :
                   other = mm.top_responsible \/ str_lt(mm.top_responsible, other)
  /\ (HasMarketMetrics(1) /\ HasMarketMetrics(2)) =>
       \A k \in 1..Len(calcs[1].market_metrics) :
         \A l \in 1..Len(calcs[2].market_metrics) :
           calcs[1].market_metrics[k].name = calcs[2].market_metrics[l].name =>
             calcs[1].market_metrics[k].top_responsible
               = calcs[2].market_metrics[l].top_responsible

-----------------------------------------------------------------------------
(* MetricsCalculator.get_summary *)

COL_CUSTOMER == "Customer"

\* Series.nunique(): the number of distinct values present
nunique(values) ==
  Cardinality({values[i] : i \in {j \in 1..Len(values) : ~isna(values[j])}})

\* df.groupby(col).size().to_dict(): the number of rows of every key present
groupby_size(df, col) == value_counts(column(df, col))

get_summary(df) ==
  [total_opportunities |-> Len(df),
   total_usd |-> usd_sum(df),
   avg_usd |-> usd_mean(df),
   unique_responsibles |-> nunique(column(df, COL_RESPONSIBLE)),
   unique_markets |-> nunique(column(df, COL_MARKET)),
   unique_customers |-> nunique(column(df, COL_CUSTOMER)),
   stagnant_count |-> flag_count(df, "_is_stagnant"),
   at_risk_count |-> flag_count(df, "_is_at_risk"),
   by_kpi |-> groupby_size(df, COL_KPI),
   by_stage |-> groupby_size(df, COL_STAGE),
   by_market |-> groupby_size(df, COL_MARKET)]

\* the largest number of rows of the snapshot of SpecOverview
MaxOverviewRows == 2

\* rows of two responsibles, markets and customers, stagnant or not, at
\* risk or not
OverviewRows ==
  {[MetricRow("A", Num(50), created, close)
      EXCEPT ![COL_RESPONSIBLE] = Str(r), ![COL_MARKET] = Str(m)]
     @@ (COL_CUSTOMER :> customer) :
     r \in {"Alice", "Bob"}, m \in {"Colombia", "Peru"},
     customer \in {Str("Acme"), NA},
     created \in {Timestamp(60, 0), Timestamp(90, 0)},
     close \in {Timestamp(103, 0), Timestamp(120, 0)}}

InitOverview ==
  /\ \E n \in 0..MaxOverviewRows : current_df \in FramesOfLen(OverviewRows, n)
  /\ previous_df = <<>>
  /\ locals = NoLocals
  /\ result = NoResult
  /\ pc = "loaded"
  /\ IdleExcept({"compare"})

\* metrics.get_summary()
GetSummary ==
  /\ mpc = "ready"
  /\ metrics_summary = <<>>
  /\ metrics_summary' = get_summary(self_df)
  /\ Others({"overview"})

NextOverview == ConstructMetrics \/ GetSummary

SpecOverview == InitOverview /\ [][NextOverview]_vars

Summarised == metrics_summary # <<>>

\* C26: get_summary of a calculator built on no rows returns (it does not
\* raise) zero for the total, the amount, the three distinct counts and the
\* stagnant and at-risk counts, empty mappings by KPI, stage and market, and
\* an average that is 0 or the not-a-number marker
C26_EmptySummary ==
  (mpc = "ready" /\ current_df = <<>>) =>
    /\ ENABLED GetSummary \/ Summarised
    /\ Summarised =>
         /\ metrics_summary.total_opportunities = 0
         /\ metrics_summary.total_usd = 0
         /\ metrics_summary.unique_responsibles = 0
         /\ metrics_summary.unique_markets = 0
         /\ metrics_summary.unique_customers = 0
         /\ metrics_summary.stagnant_count = 0
         /\ metrics_summary.at_risk_count = 0
         /\ metrics_summary.by_kpi = <<>>
         /\ metrics_summary.by_stage = <<>>
         /\ metrics_summary.by_market = <<>>
         /\ metrics_summary.avg_usd \in {NA, Num(0)}

\* the summary of a calculator built on no rows, its average not a number
C26_Witness ==
  /\ Summarised
  /\ current_df = <<>>
  /\ metrics_summary.total_opportunities = 0
  /\ isna(metrics_summary.avg_usd)

-----------------------------------------------------------------------------
(* The traffic-light colour of a KPI in the e-mail summary *)

Thresholds(green, yellow) == [green |-> green, yellow |-> yellow]

KPI_THRESHOLDS ==
  "DC001 NB" :> Thresholds(50, 100)
    @@ "DC001 CHURN" :> Thresholds(100, 500)
    @@ "DC002 NB" :> Thresholds(15, 50)
    @@ "DC002 CHURN" :> Thresholds(15, 50)
    @@ "DC003" :> Thresholds(5, 10)
    @@ "DC004" :> Thresholds(50, 100)
    @@ "DC005" :> Thresholds(15, 30)
    @@ "DC007" :> Thresholds(5, 10)
    @@ "DC008" :> Thresholds(15, 30)
    @@ "DC010" :> Thresholds(1, 15)
    @@ "DC011" :> Thresholds(1, 1)

\* KPI_THRESHOLDS.get(kpi_name, {'green': 20, 'yellow': 50})
thresholds_of(kpi_name) ==
  IF kpi_name \in DOMAIN KPI_THRESHOLDS THEN KPI_THRESHOLDS[kpi_name]
  ELSE Thresholds(20, 50)

GREEN == "#10b981"
YELLOW == "#f59e0b"
RED == "#ef4444"

get_kpi_color(kpi_name, count) ==
  LET thresholds == thresholds_of(kpi_name)
  IN IF count < thresholds.green THEN GREEN
     ELSE IF count < thresholds.yellow THEN YELLOW
     ELSE RED

\* the largest count get_kpi_color is called with
MaxColorCount == 20

\* the KPI names of a snapshot: the configured ones and one that is not
KpiNames == DOMAIN KPI_THRESHOLDS \cup {"DC099"}

InitColor ==
  /\ \E kpi_name \in KpiNames : \E count \in 0..MaxColorCount :
       kpi_color = [kpi_name |-> kpi_name, count |-> count, color |-> "None"]
  /\ IdleExcept({"color"})

\* get_kpi_color(kpi_name, count)
GetKpiColor ==
  /\ kpi_color.color = "None"
  /\ kpi_color' = [kpi_color EXCEPT !.color = get_kpi_color(kpi_color.kpi_name,
                                                             kpi_color.count)]
  /\ Others({"color"})

NextColor == GetKpiColor

SpecColor == InitColor /\ [][NextColor]_vars

Coloured == kpi_color # <<>> /\ kpi_color.color # "None"

\* the class the severity table gives a count under the thresholds of the
\* e-mail summary
TableClass ==
  LET thresholds == thresholds_of(kpi_color.kpi_name)
  IN severity_class(kpi_value(kpi_color.count, 0, FALSE),
                    Thresholds(thresholds.green * 10, thresholds.yellow * 10))

\* C27: get_kpi_color returns green, yellow or red exactly when the
\* severity table, for the same thresholds and count, gives severity-low,
\* severity-medium or severity-high
C27_Original ==
  Coloured =>
    /\ kpi_color.color = GREEN <=> TableClass = "severity-low"
    /\ kpi_color.color = YELLOW <=> TableClass = "severity-medium"
    /\ kpi_color.color = RED <=> TableClass = "severity-high"

-----------------------------------------------------------------------------
(* JobManager: first-time construction by concurrent threads *)

\* the largest number of threads calling JobManager() for the first time
MaxCallers == 3

Callers == 1..MaxCallers

\* object.__new__(cls): an instance with no attribute yet
BareInstance == [has_jobs |-> FALSE, _jobs |-> {}, _jobs_lock |-> "absent"]

\* the class before its first call; every thread is about to call JobManager()
InitSingleton ==
  /\ cls_instance = 0
  /\ cls_lock = "free"
  /\ heap = <<>>
  /\ callers = [c \in Callers |-> [pc |-> "check", self |-> 0]]
  /\ IdleExcept({"singleton"})

SingletonUp == callers # <<>>

At(c, pc_) == SingletonUp /\ callers[c].pc = pc_

Goto(c, pc_) == callers' = [callers EXCEPT ![c].pc = pc_]

\* line 49: if cls._instance is None
NewCheck(c) ==
  /\ At(c, "check")
  /\ Goto(c, IF cls_instance = 0 THEN "acquire" ELSE "return")
  /\ UNCHANGED <<cls_instance, cls_lock, heap>>
  /\ Others({"singleton"})

\* line 50: with cls._lock
NewAcquire(c) ==
  /\ At(c, "acquire")
  /\ cls_lock = "free"
  /\ cls_lock' = "held"
  /\ Goto(c, "recheck")
  /\ UNCHANGED <<cls_instance, heap>>
  /\ Others({"singleton"})

\* line 51: if cls._instance is None, under the lock
NewRecheck(c) ==
  /\ At(c, "recheck")
  /\ Goto(c, IF cls_instance = 0 THEN "allocate" ELSE "release")
  /\ UNCHANGED <<cls_instance, cls_lock, heap>>
  /\ Others({"singleton"})

\* line 52: cls._instance = super().__new__(cls)
NewAllocate(c) ==
  /\ At(c, "allocate")
  /\ heap' = Append(heap, BareInstance)
  /\ cls_instance' = Len(heap) + 1
  /\ Goto(c, "set_jobs")
  /\ UNCHANGED cls_lock
  /\ Others({"singleton"})

\* line 53: cls._instance._jobs = {}
NewSetJobs(c) ==
  /\ At(c, "set_jobs")
  /\ heap' = [heap EXCEPT ![cls_instance].has_jobs = TRUE, ![cls_instance]._jobs = {}]
  /\ Goto(c, "set_jobs_lock")
  /\ UNCHANGED <<cls_instance, cls_lock>>
  /\ Others({"singleton"})

\* line 54: cls._instance._jobs_lock = threading.Lock()
NewSetJobsLock(c) ==
  /\ At(c, "set_jobs_lock")
  /\ heap' = [heap EXCEPT ![cls_instance]._jobs_lock = "free"]
  /\ Goto(c, "release")
  /\ UNCHANGED <<cls_instance, cls_lock>>
  /\ Others({"singleton"})

\* the end of the with block of line 50
NewRelease(c) ==
  /\ At(c, "release")
  /\ cls_lock' = "free"
  /\ Goto(c, "return")
  /\ UNCHANGED <<cls_instance, heap>>
  /\ Others({"singleton"})

\* line 55: return cls._instance
NewReturn(c) ==
  /\ At(c, "return")
  /\ callers' = [callers EXCEPT ![c].self = cls_instance, ![c].pc = "create_job"]
  /\ UNCHANGED <<cls_instance, cls_lock, heap>>
  /\ Others({"singleton"})

\* line 67: with self._jobs_lock, on an instance that has the attribute or
\* has it not yet (AttributeError)
CreateJobEnter(c) ==
  /\ At(c, "create_job")
  /\ LET lock == heap[callers[c].self]._jobs_lock
     IN \/ /\ lock = "absent"
           /\ Goto(c, "AttributeError")
           /\ UNCHANGED heap
        \/ /\ lock = "free"
           /\ heap' = [heap EXCEPT ![callers[c].self]._jobs_lock = "held"]
           /\ Goto(c, "insert")
  /\ UNCHANGED <<cls_instance, cls_lock>>
  /\ Others({"singleton"})

\* line 68: self._jobs[job_id] = job, and the lock is released
CreateJobInsert(c) ==
  /\ At(c, "insert")
  /\ heap' = [heap EXCEPT ![callers[c].self]._jobs = @ \cup {c},
                          ![callers[c].self]._jobs_lock = "free"]
  /\ Goto(c, "done")
  /\ UNCHANGED <<cls_instance, cls_lock>>
  /\ Others({"singleton"})

NextSingleton ==
  \E c \in Callers :
    \/ NewCheck(c)
    \/ NewAcquire(c)
    \/ NewRecheck(c)
    \/ NewAllocate(c)
    \/ NewSetJobs(c)
    \/ NewSetJobsLock(c)
    \/ NewRelease(c)
    \/ NewReturn(c)
    \/ CreateJobEnter(c)
    \/ CreateJobInsert(c)

SpecSingleton == InitSingleton /\ [][NextSingleton]_vars

\* JobManager() has returned to thread c
Received(c) == SingletonUp /\ callers[c].self # 0

\* at most one instance is ever allocated and every thread receives it
OneInstance ==
  SingletonUp =>
    /\ Len(heap) <= 1
    /\ \A c \in Callers : Received(c) => callers[c].self = 1 /\ cls_instance = 1

\* the job table is written only by a thread inside with self._jobs_lock
TableUnderLock ==
  SingletonUp =>
    /\ Cardinality({c \in Callers : callers[c].pc = "insert"}) <= 1
    /\ \A c \in Callers :
         callers[c].pc = "insert" => heap[callers[c].self]._jobs_lock = "held"

\* the instance a thread receives has its job table and its jobs lock
ReceivedWithTable ==
  \A c \in Callers :
    Received(c) =>
      heap[callers[c].self].has_jobs /\ heap[callers[c].self]._jobs_lock # "absent"

\* no create_job is lost: none fails, and one that returned left its job
NoCreateLost ==
  SingletonUp =>
    \A c \in Callers :
      /\ callers[c].pc # "AttributeError"
      /\ callers[c].pc = "done" => c \in heap[callers[c].self]._jobs

====
